---- MODULE Spec2Model ----
(***************************************************************************)
(* A model of the class-resolution and entity-identity subsystem of        *)
(* ies_tool (src/ies_tool/ies_tool.py): the Type Hierarchy Map, the Base   *)
(* Class Resolver, the per-session Identity Cache behind the Unique        *)
(* metaclass, the entity constructors and the Reference Resolver.          *)
(***************************************************************************)
EXTENDS Integers, Sequences, FiniteSets, TLC

(***************************************************************************)
(* Bounds of the model.                                                    *)
(***************************************************************************)
\* entity objects other than those allocated over one run of the model
MaxObjects == 2
\* State and EventParticipant objects allocated (by create_state and
\* add_participant) over one run of the model
MaxStates == 1
\* Name objects allocated (by add_name and by the caller) over one run of the
\* model
MaxNames == 2
\* values the session instance counter of a tool may reach
MaxCount == 4
\* session tokens (uuid4 values) drawn over one run of the model
MaxTokens == 3
\* URIs a tool hands out before the model stops calling generate_data_uri
\* directly
MaxIssued == 4

(***************************************************************************)
(* Ontology class URIs.  "ies:X" stands for IES_BASE + "X", "rdfs:X" for   *)
(* RDFS + "X".                                                             *)
(***************************************************************************)
RDFS_RESOURCE == "rdfs:Resource"
RDFS_CLASS == "rdfs:Class"
RDF_TYPE == "rdf:type"
DEVICE == "ies:Device"
IES_STATE == "ies:State"

\* a class URI the ontology does not know
UNKNOWN_CLASS == "ex:Unknown"

(***************************************************************************)
(* The implementation lattice: cls.__subclasses__() of every entity type,  *)
(* in class-definition order.                                              *)
(***************************************************************************)
PyTypes ==
  { "RdfsResource", "RdfsClass", "ExchangedItem", "Element", "Entity", "State",
    "DeviceState", "Asset", "AmountOfMoney", "Device", "Account",
    "CommunicationsAccount", "Location", "Country", "GeoPoint",
    "ResponsibleActor", "Post", "Person", "Organisation", "ClassOfElement",
    "ClassOfClassOfElement", "ParticularPeriod", "BoundingState", "BirthState",
    "DeathState", "UnitOfMeasure", "Representation", "WorkOfDocumentation",
    "MeasureValue", "Measure", "Identifier", "Name", "NamingScheme", "Event",
    "EventParticipant", "Communication", "PartyInCommunication" }

Subclasses(cls) ==
  CASE cls = "RdfsResource" -> <<"RdfsClass", "ExchangedItem">>
    [] cls = "RdfsClass" -> <<"ClassOfElement", "ClassOfClassOfElement">>
    [] cls = "ExchangedItem" -> <<"Element", "ClassOfElement", "ClassOfClassOfElement">>
    [] cls = "Element" -> <<"Entity", "State", "ParticularPeriod", "Event">>
    [] cls = "Entity" -> <<"Asset", "Account", "Location", "ResponsibleActor">>
    [] cls = "State" -> <<"DeviceState", "BoundingState", "EventParticipant">>
    [] cls = "DeviceState" -> <<"Device">>
    [] cls = "Asset" -> <<"AmountOfMoney", "Device">>
    [] cls = "Account" -> <<"CommunicationsAccount">>
    [] cls = "Location" -> <<"Country", "GeoPoint">>
    [] cls = "ResponsibleActor" -> <<"Post", "Person", "Organisation">>
    [] cls = "ClassOfElement" -> <<"Representation", "Measure">>
    [] cls = "ClassOfClassOfElement" -> <<"UnitOfMeasure", "NamingScheme">>
    [] cls = "BoundingState" -> <<"BirthState", "DeathState">>
    [] cls = "Representation" -> <<"WorkOfDocumentation", "MeasureValue", "Identifier", "Name">>
    [] cls = "Event" -> <<"Communication", "PartyInCommunication">>
    [] OTHER -> <<>>

\* the direct bases of a type (the class statement of each type)
Bases(cls) == { b \in PyTypes : \E i \in 1..Len(Subclasses(b)) : Subclasses(b)[i] = cls }

\* uri of _all_python_subclasses: "Rdfs" in the name is replaced by the RDFS
\* namespace, every other name is appended to IES_BASE
CanonicalUri(cls) ==
  CASE cls = "RdfsResource" -> "rdfs:Resource"
    [] cls = "RdfsClass" -> "rdfs:Class"
    [] OTHER -> "ies:" \o cls

(***************************************************************************)
(* The ontology graph (ies4.ttl as loaded by Ontology.__init__): the       *)
(* rdfs:subClassOf triples among the classes the model uses, as            *)
(* <<subclass, superclass>> pairs.                                         *)
(***************************************************************************)
IES4SubClassOf ==
  { <<"rdfs:Class", "rdfs:Resource">>,
    <<"ies:Element", "ies:ExchangedItem">>,
    <<"ies:ClassOfElement", "ies:ExchangedItem">>,
    <<"ies:ClassOfClassOfElement", "ies:ExchangedItem">>,
    <<"ies:Entity", "ies:Element">>, <<"ies:State", "ies:Element">>,
    <<"ies:Event", "ies:Element">>, <<"ies:ParticularPeriod", "ies:Element">>,
    <<"ies:AssetState", "ies:State">>, <<"ies:DeviceState", "ies:AssetState">>,
    <<"ies:Asset", "ies:Entity">>, <<"ies:Asset", "ies:AssetState">>,
    <<"ies:AmountOfMoney", "ies:Asset">>,
    <<"ies:Device", "ies:Asset">>, <<"ies:Device", "ies:DeviceState">>,
    <<"ies:Account", "ies:Entity">>, <<"ies:CommunicationsAccount", "ies:Account">>,
    <<"ies:Location", "ies:Entity">>, <<"ies:Country", "ies:Location">>,
    <<"ies:GeoPoint", "ies:Location">>,
    <<"ies:ResponsibleActor", "ies:Entity">>, <<"ies:Post", "ies:ResponsibleActor">>,
    <<"ies:Person", "ies:ResponsibleActor">>, <<"ies:Organisation", "ies:ResponsibleActor">>,
    <<"ies:BoundingState", "ies:State">>, <<"ies:BirthState", "ies:BoundingState">>,
    <<"ies:DeathState", "ies:BoundingState">>, <<"ies:EventParticipant", "ies:State">>,
    <<"ies:Communication", "ies:Event">>,
    <<"ies:PartyInCommunication", "ies:EventParticipant">>,
    <<"ies:Representation", "ies:ClassOfElement">>,
    <<"ies:WorkOfDocumentation", "ies:Representation">>,
    <<"ies:MeasureValue", "ies:Representation">>,
    <<"ies:Identifier", "ies:Representation">>, <<"ies:Name", "ies:Representation">>,
    <<"ies:Measure", "ies:ClassOfElement">>,
    <<"ies:UnitOfMeasure", "ies:ClassOfClassOfElement">>,
    <<"ies:NamingScheme", "ies:ClassOfClassOfElement">> }

(***************************************************************************)
(* Ontology.make_results_set_from_query on the query of                    *)
(* _all_python_subclasses, "SELECT ?p WHERE {?p rdfs:subClassOf* <uri>}":  *)
(* every ?p with a path of zero or more subClassOf triples to uri.         *)
(***************************************************************************)
RECURSIVE SubClassOfStar(_, _)
SubClassOfStar(graph, found) ==
  LET more == found \cup { e[1] : e \in { e \in graph : e[2] \in found } }
  IN IF more = found THEN found ELSE SubClassOfStar(graph, more)

\* a query that follows at most one subClassOf statement
DirectSubClassesOf(graph, uri) == {uri} \cup { e[1] : e \in { e \in graph : e[2] = uri } }

make_results_set_from_query(graph, uri) == SubClassOfStar(graph, {uri})

(***************************************************************************)
(* The Type Hierarchy Map.  A Python dict iterates in insertion order, so  *)
(* a dict is a record [order, ent]: the keys in insertion order and the    *)
(* value of each key.                                                      *)
(***************************************************************************)
EmptyDict == [order |-> <<>>, ent |-> <<>>]

DictSet(d, k, v) ==
  IF k \in DOMAIN d.ent
    THEN [order |-> d.order, ent |-> [d.ent EXCEPT ![k] = v]]
    ELSE [order |-> Append(d.order, k), ent |-> d.ent @@ (k :> v)]

\* level + 1 of the recursive call of _all_python_subclasses
\* a builder that puts a subclass two levels below its base
SubLevelSkip(level) == level + 2
\* a builder that puts a subclass on the level of its base
SubLevelFlat(level) == level
SubLevel(level) == level + 1

RECURSIVE _all_python_subclasses(_, _, _, _), VisitSubclasses(_, _, _, _, _)
_all_python_subclasses(graph, hierarchy, cls, level) ==
  LET h1 == IF level \in DOMAIN hierarchy.ent THEN hierarchy
            ELSE DictSet(hierarchy, level, EmptyDict)
      uri == CanonicalUri(cls)
      ies_subs == make_results_set_from_query(graph, uri)
      h2 == DictSet(h1, level,
                    DictSet(h1.ent[level], uri,
                            [python_class |-> cls, ies_subclasses |-> ies_subs]))
  IN VisitSubclasses(graph, h2, Subclasses(cls), 1, SubLevel(level))

\* for sub in subclasses: self._all_python_subclasses(hierarchy, sub, level + 1)
VisitSubclasses(graph, hierarchy, subs, i, level) ==
  IF i > Len(subs) THEN hierarchy
  ELSE LET visited == _all_python_subclasses(graph, hierarchy, subs[i], level)
       IN \* the visit of subs[i] has recorded its level before the next one starts
          IF level \in DOMAIN visited.ent
            THEN VisitSubclasses(graph, visited, subs, i + 1, level)
            ELSE visited

\* self.base_classes of IESTool.__init__
BuildBaseClasses(graph) == _all_python_subclasses(graph, EmptyDict, "RdfsResource", 0)

(***************************************************************************)
(* The Base Class Resolver.  A result is [raised, python_class, level]:    *)
(* raised is "" for a normal return, else the exception's type.            *)
(***************************************************************************)
Reverse(s) == [i \in 1..Len(s) |-> s[Len(s) + 1 - i]]

\* a resolver that scans the levels in the order they were built
ScanOrderAscending(base_classes) == base_classes.order
\* keys = reversed(self.base_classes.keys())
ScanOrder(base_classes) == Reverse(base_classes.order)

Returned(cls, level) == [raised |-> "", python_class |-> cls, level |-> level]
Raised(exc) == [raised |-> exc, python_class |-> "", level |-> 0]

\* for cls in classes: if cls in base_class['ies_subclasses']
Covers(base_class, classes) ==
  \E i \in 1..Len(classes) : classes[i] \in base_class.ies_subclasses

\* the entries of one level that cover a requested class, by position
Hits(level, classes) ==
  { i \in 1..Len(level.order) : Covers(level.ent[level.order[i]], classes) }

Min(S) == CHOOSE x \in S : \A y \in S : x <= y

\* a class-list argument: [kind |-> "none"] is None, [kind |-> "list"] a list
\* with its items, [kind |-> "other"] a value that is not a list (a string
\* that is not empty)
NoneArg == [kind |-> "none", items |-> <<>>]
ListArg(items) == [kind |-> "list", items |-> items]
OtherArg == [kind |-> "other", items |-> <<>>]

RECURSIVE ScanLevels(_, _, _, _)
ScanLevels(base_classes, keys, i, classes) ==
  IF i > Len(keys)
    \* return self.base_classes[0]["python_class"], 0
    THEN IF "python_class" \in DOMAIN base_classes.ent[0].ent
           THEN Returned(base_classes.ent[0].ent["python_class"], 0)
           ELSE Raised("KeyError")
    ELSE LET level == base_classes.ent[keys[i]]
             hits == Hits(level, classes)
         IN IF hits # {}
              THEN Returned(level.ent[level.order[Min(hits)]].python_class, keys[i])
              ELSE ScanLevels(base_classes, keys, i + 1, classes)

_determine_base_class(base_classes, classes) ==
  IF classes.kind # "list"
    \* "for cls in classes" on a value that is not iterable
    THEN Raised("TypeError")
    ELSE ScanLevels(base_classes, ScanOrder(base_classes), 1, classes.items)

(***************************************************************************)
(* URIs.  A URI is a record of the parts its string is built from:        *)
(*   user     a string the caller wrote, s                                 *)
(*   gen      the string s that generate_data_uri built                    *)
(*   iso8601  "http://iso.org/iso8601#" + time string s                    *)
(*   iso3166  "http://iso.org/iso3166#" + country code s                   *)
(*   none, empty   the values None and "" of a uri argument                *)
(* post and m hold the suffix "_<post>" (m = 0) or "_<post>_<m:03d>" of a  *)
(* URI derived from another one.                                           *)
(***************************************************************************)
Uri(k, s, t, n) == [k |-> k, s |-> s, t |-> t, n |-> n, post |-> "", m |-> 0]
NoneUri == Uri("none", "", 0, 0)
EmptyUri == Uri("empty", "", 0, 0)
UserUri(s) == Uri("user", s, 0, 0)
Iso8601Uri(time_string) == Uri("iso8601", time_string, 0, 0)
Iso3166Uri(code) == Uri("iso3166", code, 0, 0)
Suffixed(uri, post) == [uri EXCEPT !.post = post, !.m = 0]

\* "not uri" of Python: None and the empty string
Falsy(uri) == uri.k \in {"none", "empty"}

\* validators.url(uri)
INVALID_URI == UserUri("not a uri")
ValidUrl(uri) == uri # INVALID_URI /\ ~Falsy(uri)

\* terms of a triple other than instance URIs: an ontology class or property
\* URI, and the text of a literal
ClassTerm(c) == Uri("class", c, 0, 0)
TextTerm(s) == Uri("text", s, 0, 0)

\* lit is "" for a URIRef object, "plain" for Literal(obj) and the datatype for
\* Literal(obj, datatype=...)
Triple(s, p, o, lit) == [s |-> s, p |-> p, o |-> o, lit |-> lit]

(***************************************************************************)
(* The tools: the module-level IES_TOOL = IESTool() and one IESTool the    *)
(* caller created.                                                         *)
(***************************************************************************)
Tools == {"IES_TOOL", "tool"}

VARIABLES
  instances,               \* tool.instances: URI -> object, per tool
  graph,                   \* the rdflib graph of each tool, a set of triples
  session_instance_count,  \* per tool
  session_uuid,            \* per tool, the session token
  base_classes,            \* per tool, the Type Hierarchy Map
  objs,                    \* the entity objects allocated so far, by identity
  uuids,                   \* number of uuid4 values drawn so far
  first,                   \* per tool: URI -> the object the first construction
                           \* of the session that passed uri=URI returned
  issued,                  \* per tool: the URIs generate_data_uri returned, in
                           \* order, each with the session token it was made under
  ontology,                \* per tool, tool.ontology.graph: its rdfs:subClassOf
                           \* statements
  prefixes,                \* per tool, tool.prefixes
  mode,                    \* per tool, self.__mode
  validate,                \* per tool, self.__validate
  init_args,               \* per tool: the arguments IESTool(...) was called with
  stack,                   \* the frames of the add_party call in progress
  ret,                     \* outcome of the last call
  log                      \* side effects of the last call, in program order

vars == <<instances, graph, session_instance_count, session_uuid, base_classes,
          objs, uuids, first, issued, ontology, prefixes, mode, validate, init_args,
          stack, ret, log>>

\* the fields of a tool that no construction, resolution or reset assigns
settings == <<ontology, prefixes, mode, validate, init_args>>

\* the state a call works on, threaded through the operators below
Cur ==
  [instances |-> instances, graph |-> graph,
   session_instance_count |-> session_instance_count,
   session_uuid |-> session_uuid, objs |-> objs, issued |-> issued,
   prefixes |-> prefixes, mode |-> mode,
   log |-> <<>>, exc |-> "", ret |-> 0, hit |-> FALSE, key |-> NoneUri,
   errors |-> 0, warnings |-> <<>>, msg |-> <<>>]

\* a statement that raises nothing
Swallow(M, e) == M

\* raise e
Throw(M, e) == [M EXCEPT !.exc = e]

DictPut(f, k, v) == IF k \in DOMAIN f THEN [f EXCEPT ![k] = v] ELSE f @@ (k :> v)

(***************************************************************************)
(* IESTool.generate_data_uri: the URI it returns and the counter update.   *)
(***************************************************************************)
DEFAULT_DATA_NAMESPACE == "http://example.com/rdf/testdata#"

DigitChars ==
  <<"0", "1", "2", "3", "4", "5", "6", "7", "8", "9", "a", "b", "c", "d", "e", "f">>

\* the widths of uuid.UUID.hex and of the format specification 06d
HEX_WIDTH == 32
COUNT_WIDTH == 6

\* format(n, "0<width>d") for base 10 and "%0<width>x" % n for base 16: at
\* least width digits, more when n needs them
RECURSIVE ZeroPadded(_, _, _)
ZeroPadded(n, base, width) ==
  IF width <= 1 /\ n < base THEN DigitChars[n + 1]
  ELSE ZeroPadded(n \div base, base, width - 1) \o DigitChars[(n % base) + 1]

\* self.session_uuid.hex of every session token; the uuid4 value of session
\* token k is the number k
SessionUuidStrs == [token \in 1..MaxTokens |-> ZeroPadded(token, 16, HEX_WIDTH)]
SessionUuidStr(token) == SessionUuidStrs[token]

\* f'{self.session_instance_count:06d}' of every value the counter takes
CountStrs == [n \in 0..(MaxCount + 2) |-> ZeroPadded(n, 10, COUNT_WIDTH)]

\* the value None of session_uuid, session_uuid_str and session_instance_count
NoneValue == -1

\* the default_data_namespace property: return self.prefixes[":"]
default_data_namespace(M, t) == M.prefixes[t][":"]

\* f'{self.default_data_namespace}{self.session_uuid_str}{context}_{count:06d}';
\* format(None, "06d") raises TypeError and no URI is built
DataUri(M, t, context) ==
  IF M.session_instance_count[t] = NoneValue THEN NoneUri
  ELSE Uri("gen", default_data_namespace(M, t) \o SessionUuidStr(M.session_uuid[t])
                    \o context \o "_" \o CountStrs[M.session_instance_count[t]],
           0, 0)

\* a generator that hands out a URI and leaves the counter alone
CountStay(M, t, context) ==
  [M EXCEPT !.issued[t] = Append(@, [session |-> M.session_uuid[t],
                                     uri |-> DataUri(M, t, context)])]

\* self.session_instance_count = self.session_instance_count + 1; return uri
CountUp(M, t, context) ==
  IF M.session_instance_count[t] = NoneValue THEN Throw(M, "TypeError")
  ELSE [M EXCEPT !.session_instance_count[t] = @ + 1,
                 !.issued[t] = Append(@, [session |-> M.session_uuid[t],
                                          uri |-> DataUri(M, t, context)])]

(***************************************************************************)
(* IESTool.in_graph and IESTool.add_triple.  graph[t] is the store the     *)
(* mode of the tool writes to: tool.graph in rdflib mode, the graph of the *)
(* plug-in (RdfLibPlugin) in plugin mode, the dataset of the server in     *)
(* sparql_server mode.  The argument lit is "" for is_literal=False and    *)
(* the literal_type of a literal otherwise.                                *)
(***************************************************************************)
\* self.xsdDatatypes, the names the model passes that rdflib's XSD defines
XSD_NAMES == {"string", "integer"}

\* getattr(XSD, literal_type), XSD.string on AttributeError
XsdDatatype(literal_type) ==
  IF literal_type \in XSD_NAMES THEN "xsd:" \o literal_type ELSE "xsd:string"

\* RdfLibPlugin.in_graph
PlugInInGraph(M, t, s, p, o, lit) ==
  IF lit # "" THEN Triple(s, p, o, "plain") \in M.graph[t]
  ELSE Triple(s, p, o, "") \in M.graph[t]

\* the rdflib branch of in_graph: both arms look for Literal(obj)
RdflibInGraph(M, t, s, p, o, lit) ==
  IF lit # "" THEN Triple(s, p, o, "plain") \in M.graph[t]
  ELSE Triple(s, p, o, "plain") \in M.graph[t]

\* the sparql_server branch builds a query string and returns None; 0 stands
\* for None
in_graph(M, t, s, p, o, lit) ==
  CASE M.mode[t] = "plugin" -> PlugInInGraph(M, t, s, p, o, lit)
    [] M.mode[t] = "sparql_server" -> 0
    [] OTHER -> RdflibInGraph(M, t, s, p, o, lit)

\* RdfLibPlugin.add_triple; IESTool.add_triple always passes a literal_type
PlugInAddTriple(M, t, s, p, o, lit) ==
  IF PlugInInGraph(M, t, s, p, o, lit) THEN M
  ELSE [M EXCEPT !.graph[t] = @ \cup
          {Triple(s, p, o, CASE lit = "" -> ""
                             [] lit = "string" -> "xsd:string"
                             [] OTHER -> lit)}]

add_triple(M, t, s, p, o, lit) ==
  CASE M.mode[t] = "plugin" -> PlugInAddTriple(M, t, s, p, o, lit)
    \* INSERT DATA { <s> <p> "o"^^literal_type } or { <s> <p> <o> }
    [] M.mode[t] = "sparql_server" ->
         [M EXCEPT !.graph[t] = @ \cup {Triple(s, p, o, lit)}]
    [] OTHER ->
         IF in_graph(M, t, s, p, o, lit) THEN M
         ELSE [M EXCEPT !.graph[t] = @ \cup
                 {Triple(s, p, o, IF lit = "" THEN "" ELSE XsdDatatype(lit))}]

(***************************************************************************)
(* RdfsResource.__init__                                                   *)
(***************************************************************************)
\* for cls in classes: self.tool.add_triple(self._uri, RDF_TYPE, cls); each
\* emission is logged with whether the URI is a key of the cache at that time
RECURSIVE AddTypeTriples(_, _, _, _, _)
AddTypeTriples(M, t, uri, classes, i) ==
  IF i > Len(classes) THEN M
  ELSE LET m1 == add_triple(M, t, uri, RDF_TYPE, ClassTerm(classes[i]), "")
           ev == [e |-> "type_triple", tool |-> t, uri |-> uri,
                  registered |-> uri \in DOMAIN M.instances[t]]
       IN AddTypeTriples([m1 EXCEPT !.log = Append(@, ev)], t, uri, classes, i + 1)

\* tool.instances[uri] = self
Register(M, t, uri, self) ==
  [M EXCEPT !.instances[t] = DictPut(@, uri, self),
            !.log = Append(@, [e |-> "register", tool |-> t, uri |-> uri,
                               registered |-> TRUE])]

RdfsResource__init__(M, self, tool, uri, classes) ==
  IF classes.kind = "other" THEN Throw(M, "Exception")
  ELSE
    LET cl == IF classes.kind = "none" \/ classes.items = <<>>
                THEN <<RDFS_RESOURCE>> ELSE classes.items
        t == IF tool = "none" THEN "IES_TOOL" ELSE tool
        m1 == IF Falsy(uri) THEN CountUp(M, t, "") ELSE M
        u == IF Falsy(uri) THEN DataUri(M, t, "") ELSE uri
        m2 == AddTypeTriples(m1, t, u, cl, 1)
        m3 == [m2 EXCEPT !.objs[self] =
                 [@ EXCEPT !.uri = u, !.classes = cl, !.tool = t,
                           !.session = M.session_uuid[t]]]
    IN Register(m3, t, u, self)

(***************************************************************************)
(* The arguments of a construction call.  tool_how and uri_how say how the *)
(* argument reached the call: "kw" by keyword, "pos" positionally, or      *)
(* "omitted".  text, time_string and code are the keyword arguments of     *)
(* Representation, ParticularPeriod and Country; given_name, surname,      *)
(* start and date_of_birth those of Person, <<"None">> standing for a time *)
(* string left at None; value is the keyword argument of MeasureValue and  *)
(* communication that of PartyInCommunication, 0 standing for None.        *)
(***************************************************************************)
Args(tool, tool_how, uri, uri_how, classes) ==
  [uri |-> uri, classes |-> classes, time_string |-> "", code |-> "",
   tool |-> tool, tool_how |-> tool_how, uri_how |-> uri_how, text |-> "",
   given_name |-> "", surname |-> "", start |-> <<"None">>,
   date_of_birth |-> <<"None">>, value |-> "", communication |-> 0]

\* cls(tool=tool, uri=uri, classes=classes)
KwArgs(tool, uri, classes) == Args(tool, "kw", uri, "kw", classes)

\* the value __init__ receives for its tool and uri parameters
ToolParam(a) == IF a.tool_how = "omitted" THEN "none" ELSE a.tool
UriParam(a) == IF a.uri_how = "omitted" THEN NoneUri ELSE a.uri

\* cls.__new__(cls, *args, **kwargs); session is the session token of the
\* object's tool at the time __init__ bound the object to it
NewObject(cls) ==
  [python_class |-> cls, uri |-> NoneUri, classes |-> <<>>, tool |-> "none", session |-> 0]

\* the types whose __init__ only defaults the class list and calls super().__init__
\* when start, end and the other optional arguments are left out
PlainTypes == { "RdfsResource", "RdfsClass", "ExchangedItem", "Element", "Entity",
    "State", "DeviceState", "Asset", "Device", "Account", "CommunicationsAccount",
    "Location", "ResponsibleActor", "Post", "Person", "Organisation", "ClassOfElement",
    "ClassOfClassOfElement", "BoundingState", "BirthState", "DeathState",
    "Event", "EventParticipant", "Communication" }

\* constructors that also replace an empty class list by the canonical class
DefaultClassesWhenEmpty(cls, classes) ==
  IF (classes.kind = "none" \/ classes = ListArg(<<>>)) /\ cls # "RdfsResource"
    THEN ListArg(<<CanonicalUri(cls)>>) ELSE classes

\* if classes is None: classes = [<the canonical class of the type>]
DefaultClasses(cls, classes) ==
  IF classes.kind = "none" /\ cls # "RdfsResource"
    THEN ListArg(<<CanonicalUri(cls)>>) ELSE classes

\* self._default_state_type
DefaultStateType(cls) ==
  CASE cls = "Person" -> "ies:PersonState"
    [] cls = "Organisation" -> "ies:OrganisationState"
    [] cls \in {"ResponsibleActor", "Post"} -> "ies:ResponsibleActorState"
    [] cls = "Asset" -> "ies:AssetState"
    [] cls = "Device" -> "ies:DeviceState"
    [] cls = "Account" -> "ies:AccountState"
    [] cls = "CommunicationsAccount" -> "ies:CommunicationsAccountState"
    [] cls \in {"Location", "Country", "GeoPoint"} -> "ies:#LocationState"
    [] OTHER -> IES_STATE

RECURSIVE Unique__call__(_, _, _)

\* Representation.__init__ as Identifier.__init__ reaches it
Representation__init__(M, self, a) ==
  LET m1 == RdfsResource__init__(M, self, ToolParam(a), UriParam(a),
                                 DefaultClasses(M.objs[self].python_class, a.classes))
  IN IF m1.exc # "" \/ a.text = "" THEN m1
     ELSE add_triple(m1, m1.objs[self].tool, m1.objs[self].uri,
                     "ies:representationValue", TextTerm(a.text), "string")

\* Element.add_identifier
add_identifier(M, self, identifier, id_class, uri) ==
  LET t == M.objs[self].tool
      m1 == Unique__call__(M, "Identifier",
              [KwArgs(t, uri, ListArg(<<id_class>>)) EXCEPT !.text = identifier])
  IN IF m1.exc # "" THEN m1
     ELSE add_triple(m1, t, m1.objs[self].uri, "ies:isIdentifiedBy",
                     m1.objs[m1.ret].uri, "")

\* Country.__init__ with validate=False and country_name=None
Country__init__(M, self, a) ==
  LET uri == Iso3166Uri(a.code)
      classes == IF a.classes.kind = "none" \/ a.classes = ListArg(<<>>)
                   THEN ListArg(<<"ies:Country">>) ELSE a.classes
      m1 == RdfsResource__init__(M, self, ToolParam(a), uri, classes)
  IN IF m1.exc # "" THEN m1
     ELSE add_identifier(m1, self, a.code, "ies:ISO3166_1Alpha_3",
                         Suffixed(uri, "ISO3166_1Alpha_3"))

\* the time strings of the model, and time_string.replace(" ", "T") on them
TIME_STRING == "2007-01-02T03:04:05"
SPACED_TIME_STRING == "2007-01-02 03:04:05"
SpaceToT(time_string) ==
  IF time_string = SPACED_TIME_STRING THEN TIME_STRING ELSE time_string

\* ParticularPeriod.__init__, which has no uri parameter
ParticularPeriod__init__(M, self, a) ==
  IF a.uri_how # "omitted" THEN Throw(M, "TypeError")
  ELSE IF a.time_string = "" THEN Throw(M, "Exception")
  ELSE
    LET iso8601_time_string == SpaceToT(a.time_string)
        uri == Iso8601Uri(iso8601_time_string)
        m1 == RdfsResource__init__(M, self, ToolParam(a), uri,
                                   DefaultClasses("ParticularPeriod", a.classes))
    IN IF m1.exc # "" THEN m1
       ELSE add_triple(m1, m1.objs[self].tool, uri, "ies:iso8601PeriodRepresentation",
                       TextTerm(iso8601_time_string), "string")

(***************************************************************************)
(* utils.validate_datetime_string, the decorator of put_in_period,         *)
(* starts_in and ends_in.  A time string is a sequence of characters.      *)
(***************************************************************************)
\* the string a sequence of characters spells
RECURSIVE Str(_)
Str(chars) == IF chars = <<>> THEN "" ELSE Head(chars) \o Str(Tail(chars))

\* c in chars
HasChar(chars, c) == \E i \in 1..Len(chars) : chars[i] = c

\* the value None where a string is expected
NoneStr == <<"None">>

IsDigit(c) == \E n \in 0..9 : DigitChars[n + 1] = c
DigitValue(c) == CHOOSE n \in 0..9 : DigitChars[n + 1] = c
AllDigits(chars) == \A i \in 1..Len(chars) : IsDigit(chars[i])

\* int(chars) for a sequence of digits
RECURSIVE Number(_)
Number(chars) ==
  IF chars = <<>> THEN 0
  ELSE 10 * Number(SubSeq(chars, 1, Len(chars) - 1)) + DigitValue(chars[Len(chars)])

\* time_string.replace(old, new) for single characters
Replace(chars, old, new) ==
  [i \in 1..Len(chars) |-> IF chars[i] = old THEN new ELSE chars[i]]

\* time_string.rstrip(c)
RECURSIVE RStrip(_, _)
RStrip(chars, c) ==
  IF chars # <<>> /\ chars[Len(chars)] = c
    THEN RStrip(SubSeq(chars, 1, Len(chars) - 1), c) ELSE chars

IsLeap(year) == (year % 4 = 0 /\ year % 100 # 0) \/ year % 400 = 0

DaysIn(year, month) ==
  CASE month = 2 -> IF IsLeap(year) THEN 29 ELSE 28
    [] month \in {4, 6, 9, 11} -> 30
    [] OTHER -> 31

\* a field of n digits with a value in lo..hi
Field(chars, from, n, lo, hi) ==
  /\ Len(chars) >= from + n - 1
  /\ AllDigits(SubSeq(chars, from, from + n - 1))
  /\ Number(SubSeq(chars, from, from + n - 1)) \in lo..hi

\* dt.date.fromisoformat accepts YYYY-MM-DD; the basic and week forms that
\* later Python versions also accept are not among the strings of the model
IsIsoDate(chars) ==
  /\ Len(chars) = 10
  /\ chars[5] = "-" /\ chars[8] = "-"
  /\ Field(chars, 1, 4, 1, 9999)
  /\ Field(chars, 6, 2, 1, 12)
  /\ Field(chars, 9, 2, 1, DaysIn(Number(SubSeq(chars, 1, 4)), Number(SubSeq(chars, 6, 7))))

\* dt.datetime.strptime(time_string, '%Y') on four characters
IsYear(chars) == Len(chars) = 4 /\ Field(chars, 1, 4, 1, 9999)

\* dt.datetime.strptime(time_string, '%Y-%m') on seven characters
IsYearMonth(chars) ==
  /\ Len(chars) = 7
  /\ chars[5] = "-"
  /\ Field(chars, 1, 4, 1, 9999)
  /\ Field(chars, 6, 2, 1, 12)

\* the time part HH, HH:MM or HH:MM:SS
IsIsoTime(chars) ==
  /\ Len(chars) \in {2, 5, 8}
  /\ Field(chars, 1, 2, 0, 23)
  /\ Len(chars) >= 5 => chars[3] = ":" /\ Field(chars, 4, 2, 0, 59)
  /\ Len(chars) >= 8 => chars[6] = ":" /\ Field(chars, 7, 2, 0, 59)

\* dt.datetime.fromisoformat on a string with a 'T': a date, the separator
\* and a time without offset
IsIsoDateTime(chars) ==
  /\ Len(chars) > 11
  /\ IsIsoDate(SubSeq(chars, 1, 10))
  /\ chars[11] = "T"
  /\ IsIsoTime(SubSeq(chars, 12, Len(chars)))

Validated(raised, time_string) == [raised |-> raised, time_string |-> time_string]

\* a decorator that passes every string on
validate_nothing(time_string) ==
  Validated("", RStrip(Replace(time_string, " ", "T"), "Z"))

\* the wrapper up to the call of the decorated function: the exception it
\* raises, or the time string it passes on
validate_datetime_string(time_string) ==
  \* '+' in None
  IF time_string = NoneStr THEN Validated("TypeError", time_string)
  ELSE IF HasChar(time_string, "+") THEN Validated("RuntimeError", time_string)
  ELSE LET stripped == RStrip(Replace(time_string, " ", "T"), "Z")
           parsed == IF HasChar(stripped, "T") THEN IsIsoDateTime(stripped)
                     ELSE IF Len(stripped) = 4 THEN IsYear(stripped)
                     ELSE IF Len(stripped) = 7 THEN IsYearMonth(stripped)
                     ELSE IsIsoDate(stripped)
       IN IF parsed THEN Validated("", stripped) ELSE Validated("RuntimeError", stripped)

\* return obj, unless an exception is on its way
ReturnObject(obj, M) == IF M.exc # "" THEN M ELSE [M EXCEPT !.ret = obj]

\* put_in_period after pp_instance = ParticularPeriod(...)
PeriodCreated(self, M) ==
  IF M.exc # "" THEN M
  ELSE add_triple(M, M.objs[self].tool, M.objs[self].uri, "ies:inPeriod",
                  M.objs[M.ret].uri, "")

\* put_in_period as the wrapper calls it, v being what the wrapper decided
PutInPeriodWrapped(M, self, v) ==
  IF v.raised # "" THEN Throw(M, v.raised)
  ELSE PeriodCreated(self, Unique__call__(M, "ParticularPeriod",
                       [Args(M.objs[self].tool, "kw", NoneUri, "omitted", NoneArg)
                          EXCEPT !.time_string = Str(v.time_string)]))

\* Element.put_in_period
put_in_period(M, self, time_string) ==
  PutInPeriodWrapped(M, self, validate_datetime_string(time_string))

\* starts_in and ends_in after bs = BoundingState(...)
BoundingStateCreated(self, time_string, predicate, M) ==
  IF M.exc # "" THEN M
  ELSE ReturnObject(M.ret,
         IF time_string # <<>>
           THEN put_in_period(add_triple(M, M.objs[self].tool, M.objs[M.ret].uri, predicate,
                                         M.objs[self].uri, ""),
                              M.ret, time_string)
           ELSE add_triple(M, M.objs[self].tool, M.objs[M.ret].uri, predicate,
                           M.objs[self].uri, ""))

\* starts_in and ends_in as the wrapper calls them
InBoundingStateWrapped(M, self, v, bounding_state_class, uri, predicate) ==
  IF v.raised # "" THEN Throw(M, v.raised)
  ELSE BoundingStateCreated(self, v.time_string, predicate,
         Unique__call__(M, "BoundingState",
           KwArgs(M.objs[self].tool, uri,
                  ListArg(<<IF bounding_state_class = "" THEN "ies:BoundingState"
                            ELSE bounding_state_class>>))))

\* the body shared by Element.starts_in and Element.ends_in, which differ in
\* the predicate that relates the bounding state to the item
InBoundingState(M, self, time_string, bounding_state_class, uri, predicate) ==
  InBoundingStateWrapped(M, self, validate_datetime_string(time_string),
                         bounding_state_class, uri, predicate)

\* Element.starts_in
starts_in(M, self, time_string, bounding_state_class, uri) ==
  InBoundingState(M, self, time_string, bounding_state_class, uri, "ies:isStartOf")

\* Element.ends_in
ends_in(M, self, time_string, bounding_state_class, uri) ==
  InBoundingState(M, self, time_string, bounding_state_class, uri, "ies:isEndOf")

(***************************************************************************)
(* IESTool._mint_dependent_uri and the methods that name an object after   *)
(* its parent.                                                             *)
(***************************************************************************)
DEPENDENT_WIDTH == 3

\* f'{parent_uri}_{postfix}_{counter:03d}'
DependentUri(parent_uri, postfix, counter) ==
  [parent_uri EXCEPT !.s = @ \o "_" \o postfix \o "_" \o ZeroPadded(counter, 10, DEPENDENT_WIDTH)]

\* a minting that returns the first candidate whether it is taken or not
MintFirst(M, t, parent_uri, postfix, counter) == DependentUri(parent_uri, postfix, counter)

\* while new_uri in self.instances: counter += 1; ...
RECURSIVE MintFrom(_, _, _, _, _)
MintFrom(M, t, parent_uri, postfix, counter) ==
  IF DependentUri(parent_uri, postfix, counter) \in DOMAIN M.instances[t]
    THEN MintFrom(M, t, parent_uri, postfix, counter + 1)
    ELSE DependentUri(parent_uri, postfix, counter)

_mint_dependent_uri(M, t, parent_uri, postfix) == MintFrom(M, t, parent_uri, postfix, 1)

\* add_name after representation = Name(...)
NameCreated(self, M) ==
  IF M.exc # "" THEN M
  ELSE add_triple(M, M.objs[self].tool, M.objs[self].uri, "ies:hasName",
                  M.objs[M.ret].uri, "")

\* ExchangedItem.add_name(name, name_class=..., uri=...)
add_name(M, self, name, name_class, uri) ==
  NameCreated(self, Unique__call__(M, "Name",
                      [KwArgs(M.objs[self].tool, uri, ListArg(<<name_class>>))
                         EXCEPT !.text = name]))

\* Person.add_given_name
add_given_name(M, self, given_name) ==
  add_name(M, self, given_name, "ies:GivenName",
           _mint_dependent_uri(M, M.objs[self].tool, M.objs[self].uri, "GIVENNAME"))

\* Person.add_surname
add_surname(M, self, surname) ==
  add_name(M, self, surname, "ies:Surname",
           _mint_dependent_uri(M, M.objs[self].tool, M.objs[self].uri, "SURNAME"))

\* Person.add_birth with place_of_birth left out
add_birth(M, self, date_of_birth) ==
  starts_in(M, self, date_of_birth, "ies:BirthState",
            _mint_dependent_uri(M, M.objs[self].tool, M.objs[self].uri, "BIRTH"))

\* if given_name: self.add_given_name(given_name=given_name)
PersonGivenName(M, self, a) ==
  IF a.given_name = "" THEN M ELSE add_given_name(M, self, a.given_name)

\* if surname: self.add_surname(surname=surname)
PersonSurname(M, self, a) ==
  IF M.exc # "" \/ a.surname = "" THEN M ELSE add_surname(M, self, a.surname)

\* if start is not None: self.add_birth(start, place_of_birth)
PersonBirth(M, self, start) ==
  IF M.exc # "" \/ start = NoneStr THEN M ELSE add_birth(M, self, start)

\* Person.__init__ after super().__init__(...)
PersonInitialised(M, self, a) ==
  IF M.exc # "" THEN M
  ELSE IF a.date_of_birth # NoneStr /\ a.start # NoneStr THEN Throw(M, "Exception")
  ELSE PersonBirth(PersonSurname(PersonGivenName(M, self, a), self, a), self,
                   IF a.date_of_birth # NoneStr THEN a.date_of_birth ELSE a.start)

\* Person.__init__ with end, date_of_death, family_name and the places left out
Person__init__(M, self, a) ==
  PersonInitialised(RdfsResource__init__(M, self, ToolParam(a), UriParam(a),
                                         DefaultClasses("Person", a.classes)),
                    self, a)

\* Event.add_part(part) with an Element object as part, which the resolver
\* returns as it is
add_part(M, self, part) ==
  add_triple(M, M.objs[self].tool, M.objs[part].uri, "ies:isPartOf", M.objs[self].uri, "")

\* PartyInCommunication.__init__ after super().__init__(...)
PartyInitialised(M, self, a) ==
  IF M.exc # "" \/ a.communication = 0 THEN M ELSE add_part(M, a.communication, self)

\* PartyInCommunication.__init__ with start and end left out
PartyInCommunication__init__(M, self, a) ==
  PartyInitialised(RdfsResource__init__(M, self, ToolParam(a), UriParam(a),
                                        DefaultClasses("PartyInCommunication", a.classes)),
                   self, a)

\* MeasureValue.__init__ with uom and measure left out (the logger's warning
\* about the missing measure changes no state)
MeasureValue__init__(M, self, a) ==
  IF a.value = "" THEN Throw(M, "Exception")
  ELSE Representation__init__(M, self, [a EXCEPT !.text = a.value])

\* cls.__init__(self, *args, **kwargs)
TypeInit(M, self, cls, a) ==
  CASE cls = "Country" -> Country__init__(M, self, a)
    [] cls = "MeasureValue" -> MeasureValue__init__(M, self, a)
    [] cls = "PartyInCommunication" -> PartyInCommunication__init__(M, self, a)
    [] cls = "Person" -> Person__init__(M, self, a)
    [] cls = "ParticularPeriod" -> ParticularPeriod__init__(M, self, a)
    [] cls \in {"Identifier", "Name"} -> Representation__init__(M, self, a)
    [] OTHER -> RdfsResource__init__(M, self, ToolParam(a), UriParam(a),
                                     DefaultClasses(cls, a.classes))

(***************************************************************************)
(* Unique.__call__, the metaclass call behind every construction.          *)
(***************************************************************************)
\* the tool whose cache the metaclass consults
CacheTool(a) == IF a.tool_how = "kw" THEN a.tool ELSE "IES_TOOL"

\* a metaclass that asserts the requested classes on the object it found
CachedItemRetyped(M, t, uri, a) ==
  [M EXCEPT !.ret = M.instances[t][uri], !.hit = TRUE, !.key = uri,
            !.graph[t] = @ \cup {Triple(uri, RDF_TYPE, ClassTerm(a.classes.items[i]), "") :
                                   i \in 1..Len(a.classes.items)}]

\* cached_item = cache[uri]; return cached_item
CachedItem(M, t, uri, a) ==
  [M EXCEPT !.ret = M.instances[t][uri], !.hit = TRUE, !.key = uri]

\* cls._instances[uri] = instance, after cls.__init__ returned
Instantiated(M, t, uri, self) ==
  IF M.exc # "" THEN M
  ELSE [Register(M, t, uri, self) EXCEPT !.ret = self, !.hit = FALSE, !.key = uri]

Unique__call__(M, cls, a) ==
  LET t == CacheTool(a)
      gen == a.uri_how # "kw" \/ Falsy(a.uri)
      uri == IF gen THEN DataUri(M, t, "") ELSE a.uri
      m1 == IF gen THEN CountUp(M, t, "") ELSE M
      m2 == IF ValidUrl(uri) THEN m1 ELSE [m1 EXCEPT !.errors = @ + 1]
  IN IF m1.exc # "" THEN m1
     ELSE IF uri \notin DOMAIN m2.instances[t]
       THEN Instantiated(TypeInit([m2 EXCEPT !.objs = Append(@, NewObject(cls))],
                                  Len(m2.objs) + 1, cls, a),
                         t, uri, Len(m2.objs) + 1)
       ELSE CachedItem(m2, t, uri, a)

(***************************************************************************)
(* RdfsResource._validate_referenced_object.  A reference is a string (the *)
(* URI it spells), an entity object, or a value of another type.           *)
(***************************************************************************)
StrRef(uri) == [kind |-> "str", uri |-> uri, obj |-> 0]
ObjRef(o) == [kind |-> "obj", uri |-> NoneUri, obj |-> o]
\* a value that is neither, the int 42
OtherRef == [kind |-> "other", uri |-> NoneUri, obj |-> 0]
NoRef == [kind |-> "none", uri |-> NoneUri, obj |-> 0]

\* str(type(reference))
TypeName(reference) ==
  CASE reference.kind = "str" -> "<class 'str'>"
    [] reference.kind = "other" -> "<class 'int'>"
    [] OTHER -> "<class 'ies_tool.ies_tool.RdfsResource'>"

\* a resolver that logs nothing on a miss
LogNothing(M, context) == M

\* logger.warning(f'String passed instead of object in {context} ...')
LogWarning(M, context) == [M EXCEPT !.warnings = Append(@, context)]

\* an error that names neither the type nor the context
UnknownTypeUnnamed(M, reference, context) == Throw(M, "Exception")

\* raise Exception(f"Unknown type {str(type(reference))} in {context}")
UnknownType(M, reference, context) ==
  [Throw(M, "Exception") EXCEPT
     !.msg = <<"Unknown type", TypeName(reference), "in", context>>]

\* a lookup that finds nothing
_get_instance_none(M, t, uri) == 0

\* IESTool._get_instance; 0 stands for None
_get_instance(M, t, uri) ==
  IF uri \in DOMAIN M.instances[t] THEN M.instances[t][uri] ELSE 0

\* if inst is not None: return inst
ReturnCached(M, inst, uri) == [M EXCEPT !.ret = inst, !.hit = TRUE, !.key = uri]

_validate_referenced_object(M, self, reference, base_type, context) ==
  LET t == M.objs[self].tool
  IN CASE reference.kind = "str" ->
            LET inst == _get_instance(M, t, reference.uri)
            IN IF inst # 0 THEN ReturnCached(M, inst, reference.uri)
               \* the warning text reads base_type.__name__ before the None check
               ELSE IF base_type = "none" THEN Throw(M, "AttributeError")
               ELSE Unique__call__(LogWarning(M, context),
                                   base_type, KwArgs(t, reference.uri, ListArg(<<>>)))
       [] reference.kind = "obj" -> [M EXCEPT !.ret = reference.obj]
       [] OTHER -> UnknownType(M, reference, context)

\* Element.create_state with every argument left out
create_state(M, self) ==
  LET t == M.objs[self].tool
      state_type == DefaultStateType(M.objs[self].python_class)
      \* the statements after state = base_class(tool=..., uri=None, classes=[state_type])
      created(m1) ==
        IF m1.exc # "" THEN m1
        ELSE add_triple(m1, t, m1.objs[m1.ret].uri, "ies:isStateOf", m1.objs[self].uri, "")
  IN created(Unique__call__(M, "State", KwArgs(t, NoneUri, ListArg(<<state_type>>))))

\* ResponsibleActor.works_for(employer)
works_for(M, self, employer) ==
  LET t == M.objs[self].tool
      \* the statement after state = self.create_state(...)
      stated(employer_object, m2) ==
        IF m2.exc # "" THEN m2
        ELSE add_triple(m2, t, m2.objs[m2.ret].uri, "ies:worksFor",
                        m2.objs[employer_object].uri, "")
      \* the statements after employer_object = self._validate_referenced_object(...)
      validated(m1) ==
        IF m1.exc # "" THEN m1 ELSE stated(m1.ret, create_state(m1, self))
  IN validated(_validate_referenced_object(M, self, employer, "ResponsibleActor",
                                           "works_for"))

\* Event.add_participant(participating_entity, uri) with participation_type,
\* start and end left out
add_participant(M, self, participating_entity, uri) ==
  LET t == M.objs[self].tool
      \* the statements after participant = EventParticipant(...)
      constructed(pe_object, m2) ==
        IF m2.exc # "" THEN m2
        ELSE add_triple(add_triple(m2, t, m2.objs[m2.ret].uri, "ies:isParticipantIn",
                                   m2.objs[self].uri, ""),
                        t, m2.objs[m2.ret].uri, "ies:isParticipationOf",
                        m2.objs[pe_object].uri, "")
      \* the statements after pe_object = self._validate_referenced_object(...)
      validated(m1) ==
        IF m1.exc # "" THEN m1
        ELSE constructed(m1.ret,
               Unique__call__(IF uri = NoneUri THEN CountUp(m1, t, "") ELSE m1,
                              "EventParticipant",
                              KwArgs(t, IF uri = NoneUri THEN DataUri(m1, t, "") ELSE uri,
                                     ListArg(<<"ies:EventParticipant">>))))
  IN validated(_validate_referenced_object(M, self, participating_entity, "Entity",
                                           "add_participant"))

(***************************************************************************)
(* IESTool.instantiate                                                     *)
(***************************************************************************)
\* the class URIs the calls of the model pass, in the order of their strings
SortKeys == <<UNKNOWN_CLASS, "ies:Asset", DEVICE, "ies:Entity", RDFS_RESOURCE>>
Rank(c) == CHOOSE i \in 1..Len(SortKeys) : SortKeys[i] = c

\* classes.sort()
RECURSIVE Insert(_, _)
Insert(sorted, c) ==
  IF sorted = <<>> THEN <<c>>
  ELSE IF Rank(c) <= Rank(Head(sorted)) THEN <<c>> \o sorted
  ELSE <<Head(sorted)>> \o Insert(Tail(sorted), c)

RECURSIVE Sorted(_)
Sorted(items) ==
  IF items = <<>> THEN <<>> ELSE Insert(Sorted(Tail(items)), Head(items))

instantiate(M, hierarchy, t, classes, uri, instance_uri_context) ==
  LET cl == IF classes.kind = "none" \/ classes = ListArg(<<>>)
              THEN ListArg(<<RDFS_RESOURCE>>) ELSE classes
  IN IF cl.kind # "list" THEN Throw(M, "RuntimeError")
     ELSE LET found == _determine_base_class(hierarchy, cl)
              m1 == IF uri = NoneUri THEN CountUp(M, t, instance_uri_context) ELSE M
              u == IF uri = NoneUri THEN DataUri(M, t, instance_uri_context) ELSE uri
          IN IF found.raised # "" THEN Throw(M, found.raised)
             ELSE Unique__call__(m1, found.python_class,
                                 KwArgs(t, u, ListArg(Sorted(cl.items))))

(***************************************************************************)
(* The state machine.                                                      *)
(***************************************************************************)
NoArgs == Args("IES_TOOL", "omitted", NoneUri, "omitted", NoneArg)

\* what the last call did: its arguments, the exception it raised or the
\* object it returned, whether the cache was hit and under which key, and
\* the messages it logged
Out(op, t, cls, a, ref, M) ==
  [op |-> op, tool |-> t, cls |-> cls, a |-> a, ref |-> ref, exc |-> M.exc,
   obj |-> IF M.exc = "" THEN M.ret ELSE 0, hit |-> M.exc = "" /\ M.hit,
   key |-> M.key, errors |-> M.errors, warnings |-> M.warnings, msg |-> M.msg,
   python_class |-> "", level |-> 0]

StateTypes == {"State", "EventParticipant", "BoundingState", "BirthState", "DeathState"}

Within(M) ==
  /\ Cardinality({o \in 1..Len(M.objs) :
                    M.objs[o].python_class \notin StateTypes \cup {"Name"}})
       <= MaxObjects
  /\ Cardinality({o \in 1..Len(M.objs) : M.objs[o].python_class = "Name"})
       <= MaxNames
  /\ Cardinality({o \in 1..Len(M.objs) : M.objs[o].python_class \in StateTypes})
       <= MaxStates
  /\ \A t \in Tools : M.session_instance_count[t] <= MaxCount

Commit(M, out) ==
  /\ Within(M)
  /\ instances' = M.instances
  /\ graph' = M.graph
  /\ session_instance_count' = M.session_instance_count
  /\ objs' = M.objs
  /\ issued' = M.issued
  /\ log' = M.log
  /\ ret' = out
  /\ UNCHANGED <<session_uuid, base_classes, uuids, settings, stack>>

(***************************************************************************)
(* IESTool.__init__.  A string the code inspects character by character   *)
(* (a prefix, a time string) is a sequence of one-character strings.       *)
(***************************************************************************)
\* an add_prefix that stores the prefix as it was given
add_prefix_as_given(dict, prefix, uri) == DictPut(dict, Str(prefix), uri)

\* IESTool.add_prefix on the dict self.prefixes; the namespace manager of
\* the rdflib graph, which the same call updates, only names prefixes when
\* the graph is serialised
add_prefix(dict, prefix, uri) ==
  LET key == IF ~HasChar(prefix, ":") THEN Append(prefix, ":") ELSE prefix
  IN DictPut(dict, Str(key), uri)

DEFAULT_PREFIXES ==
  << <<<<"x", "s", "d", ":">>, "http://www.w3.org/2001/XMLSchema#">>,
     <<<<"d", "c", ":">>, "http://purl.org/dc/elements/1.1/">>,
     <<<<"r", "d", "f", ":">>, "http://www.w3.org/1999/02/22-rdf-syntax-ns#">>,
     <<<<"r", "d", "f", "s", ":">>, "http://www.w3.org/2000/01/rdf-schema#">>,
     <<<<"o", "w", "l", ":">>, "http://www.w3.org/2002/07/owl#">>,
     <<<<"i", "s", "o", "8", "6", "0", "1", ":">>, "http://iso.org/iso8601#">>,
     <<<<"i", "s", "o", "3", "1", "6", "6", ":">>, "http://iso.org/iso3166#">>,
     <<<<"i", "s", "o", "4", "2", "1", "7", ":">>, "http://iso.org/iso4217#">>,
     <<<<"t", "o", "n", "t", ":">>, "http://telicent.io/ontology/">>,
     <<<<"e", "1", "6", "4", ":">>, "https://www.itu.int/e164#">>,
     <<<<"I", "M", "S", "I", ":">>, "https://www.itu.int/e212#">>,
     <<<<"r", "f", "c", "5", "3", "2", "2", ":">>, "https://ietf.org/rfc5322#">>,
     <<<<"i", "e", "e", "e", "8", "0", "2", ":">>, "https://www.ieee802.org#">>,
     <<<<"i", "e", "s", ":">>, "http://ies.data.gov.uk/ontology/ies4#">> >>

\* for k, v in DEFAULT_PREFIXES.items(): self.add_prefix(k, v)
RECURSIVE AddPrefixes(_, _, _)
AddPrefixes(dict, items, i) ==
  IF i > Len(items) THEN dict
  ELSE AddPrefixes(add_prefix(dict, items[i][1], items[i][2]), items, i + 1)

\* IESTool(default_data_namespace=..., mode=..., validate=...); in plugin mode
\* the plug_in argument is an RdfLibPlugin
InitArgs(namespace, m, v) == [default_data_namespace |-> namespace, mode |-> m, validate |-> v]
DefaultInitArgs == InitArgs(DEFAULT_DATA_NAMESPACE, "rdflib", FALSE)

\* an initialisation that keeps the validation setting it made
KeepValidate(fields) == fields

\* self.__validate = False, the last assignment to the attribute
ResetValidate(fields) == [fields EXCEPT !.validate = FALSE]

\* the fields of the tool when __init__ returns; uuid is the value uuid4()
\* gives if the initialisation calls it
IESTool__init__(a, uuid) ==
  LET f0 == [instances |-> <<>>, session_uuid |-> NoneValue,
             session_instance_count |-> NoneValue, mode |-> a.mode,
             validate |-> FALSE, prefixes |-> <<>>]
      \* if self.__mode == "plugin": ... elif mode == "rdflib" and validate: ...
      f1 == IF a.mode = "plugin" THEN f0
            ELSE IF a.mode = "rdflib" /\ a.validate THEN [f0 EXCEPT !.validate = TRUE]
            ELSE f0
      \* self.default_data_namespace = default_data_namespace
      f2 == [f1 EXCEPT !.prefixes = add_prefix(@, <<":">>, a.default_data_namespace)]
      f3 == [f2 EXCEPT !.prefixes = AddPrefixes(@, DEFAULT_PREFIXES, 1)]
      \* if self.__mode != "sparql_server": self.clear_graph()
      f4 == IF a.mode # "sparql_server"
              THEN [f3 EXCEPT !.session_uuid = uuid, !.session_instance_count = 0,
                              !.instances = <<>>]
              ELSE f3
  IN ResetValidate(f4)

\* the module-level IES_TOOL = IESTool() is built first, the caller's tool,
\* with the arguments a, second
InitWith(a) ==
  LET DrawsUuid(args) == args.mode # "sparql_server"
      Fields(t) == IF t = "IES_TOOL" THEN IESTool__init__(DefaultInitArgs, 1)
                   ELSE IESTool__init__(a, 2)
  IN /\ instances = [t \in Tools |-> Fields(t).instances]
     /\ graph = [t \in Tools |-> {}]
     /\ session_instance_count = [t \in Tools |-> Fields(t).session_instance_count]
     /\ session_uuid = [t \in Tools |-> Fields(t).session_uuid]
     /\ ontology = [t \in Tools |-> IES4SubClassOf]
     /\ base_classes = [t \in Tools |-> BuildBaseClasses(IES4SubClassOf)]
     /\ prefixes = [t \in Tools |-> Fields(t).prefixes]
     /\ mode = [t \in Tools |-> Fields(t).mode]
     /\ validate = [t \in Tools |-> Fields(t).validate]
     /\ init_args = [t \in Tools |-> IF t = "IES_TOOL" THEN DefaultInitArgs ELSE a]
     /\ objs = <<>>
     /\ uuids = IF DrawsUuid(a) THEN 2 ELSE 1
     /\ first = [t \in Tools |-> <<>>]
     /\ issued = [t \in Tools |-> <<>>]
     /\ stack = <<>>
     /\ ret = [op |-> "__init__", tool |-> "tool", cls |-> "", a |-> NoArgs,
               ref |-> NoRef, exc |-> "", obj |-> 0, hit |-> FALSE, key |-> NoneUri,
               errors |-> 0, warnings |-> <<>>, msg |-> <<>>, python_class |-> "",
               level |-> 0]
     /\ log = <<>>

\* tool = IESTool()
Init == InitWith(DefaultInitArgs)

\* the arguments the construction calls of the model are made with
A_URI == UserUri("http://example.org/a")
B_URI == UserUri("http://example.org/b")
COUNTRY_CODE == "GBR"

\* cls(tool=tool, uri=uri), cls(tool=tool) and cls(uri=uri)
Call(cls, a) == [cls |-> cls, a |-> a]
WithUri(tool, uri) == KwArgs(tool, uri, NoneArg)
NoUri(tool) == Args(tool, "kw", NoneUri, "omitted", NoneArg)
NoTool(uri) == Args("IES_TOOL", "omitted", uri, "kw", NoneArg)

ConstructCalls ==
  { Call("RdfsResource", WithUri("tool", A_URI)),
    Call("Person", KwArgs("tool", A_URI, ListArg(<<DEVICE>>))),
    \* Person(tool=tool, uri=uri, classes="ies:Person")
    Call("Person", KwArgs("tool", A_URI, OtherArg)),
    Call("RdfsResource", NoUri("tool")),
    Call("RdfsResource", WithUri("tool", EmptyUri)),
    Call("RdfsResource", WithUri("tool", INVALID_URI)),
    Call("RdfsResource", WithUri("tool", Iso8601Uri(TIME_STRING))),
    Call("RdfsResource", NoTool(A_URI)),
    \* Person(tool, uri)
    Call("Person", Args("tool", "pos", A_URI, "pos", NoneArg)),
    \* ParticularPeriod(tool=tool, time_string=...)
    Call("ParticularPeriod", [NoUri("tool") EXCEPT !.time_string = SPACED_TIME_STRING]),
    \* Country(tool=tool, country_alpha_3_code=..., validate=False)
    Call("Country", [NoUri("tool") EXCEPT !.code = COUNTRY_CODE]) }

\* the tool a call addresses
TargetTool(a) == IF a.tool_how = "omitted" THEN "IES_TOOL" ELSE a.tool

\* what a call cls(...) leaves behind, M being the state it reached
ConstructReturned(cls, a, t, M) ==
  /\ Commit(M, Out("construct", t, cls, a, NoRef, M))
  /\ first' = IF M.exc = "" /\ a.uri_how = "kw" /\ ~Falsy(a.uri)
                 /\ a.uri \notin DOMAIN first[t]
                THEN [first EXCEPT ![t] = @ @@ (a.uri :> M.ret)]
                ELSE first

\* cls(...) called by the user of the library
Construct(cls, a) == ConstructReturned(cls, a, TargetTool(a), Unique__call__(Cur, cls, a))

\* tool.instantiate(classes=classes, uri=uri)
Instantiate(t, classes, uri) ==
  LET M == instantiate(Cur, base_classes[t], t, classes, uri, "")
  IN /\ Commit(M, Out("instantiate", t, "", KwArgs(t, uri, classes), NoRef, M))
     /\ UNCHANGED first

\* the entity objects whose initialisation completed
Initialised == { o \in 1..Len(objs) : objs[o].uri # NoneUri }

\* the references a caller can pass: a string that is a key of the cache of
\* the object's tool, a string that may not be, an entity object, another value
References(self) ==
  {StrRef(k) : k \in DOMAIN instances[objs[self].tool]}
    \cup {StrRef(A_URI), StrRef(B_URI), OtherRef}
    \cup {ObjRef(o) : o \in Initialised}

\* the context string the model passes to the resolver
CONTEXT == "ctx"

\* self._validate_referenced_object(reference, base_type, CONTEXT)
ValidateReferencedObject(self, reference, base_type) ==
  LET M == _validate_referenced_object(Cur, self, reference, base_type, CONTEXT)
  IN /\ Commit(M, Out("_validate_referenced_object", objs[self].tool,
                      base_type, NoArgs, reference, M))
     /\ UNCHANGED first

\* self.works_for(employer)
WorksFor(self, employer) ==
  LET M == works_for(Cur, self, employer)
  IN /\ objs[self].python_class \in {"ResponsibleActor", "Post", "Person", "Organisation"}
     /\ Commit(M, Out("works_for", objs[self].tool, "ResponsibleActor", NoArgs, employer, M))
     /\ UNCHANGED first

\* self.add_participant(participating_entity=..., uri=...)
AddParticipant(self, participating_entity, uri) ==
  LET M == add_participant(Cur, self, participating_entity, uri)
  IN /\ objs[self].python_class = "Event"
     /\ Commit(M, Out("add_participant", objs[self].tool, "Entity",
                      KwArgs(objs[self].tool, uri, NoneArg), participating_entity, M))
     /\ UNCHANGED first

\* tool.generate_data_uri(context)
GenerateDataUri(t, context) ==
  LET M == [CountUp(Cur, t, context) EXCEPT !.key = DataUri(Cur, t, context)]
  IN /\ Len(issued[t]) < MaxIssued
     /\ Commit(M, Out("generate_data_uri", t, "", NoArgs, NoRef, M))
     /\ UNCHANGED first

\* a reset that keeps the cache
ClearGraphKeepingCache(t) ==
  /\ uuids < MaxTokens
  /\ uuids' = uuids + 1
  /\ session_uuid' = [session_uuid EXCEPT ![t] = uuids + 1]
  /\ graph' = [graph EXCEPT ![t] = {}]
  /\ session_instance_count' = [session_instance_count EXCEPT ![t] = 0]
  /\ first' = [first EXCEPT ![t] = <<>>]
  /\ ret' = Out("clear_graph", t, "", NoArgs, NoRef, Cur)
  /\ log' = <<>>
  /\ UNCHANGED <<base_classes, objs, issued, instances, settings, stack>>

\* tool.clear_graph() in rdflib mode
ClearGraph(t) ==
  /\ uuids < MaxTokens
  /\ uuids' = uuids + 1
  /\ session_uuid' = [session_uuid EXCEPT ![t] = uuids + 1]
  /\ graph' = [graph EXCEPT ![t] = {}]
  /\ session_instance_count' = [session_instance_count EXCEPT ![t] = 0]
  /\ instances' = [instances EXCEPT ![t] = <<>>]
  /\ first' = [first EXCEPT ![t] = <<>>]
  /\ ret' = Out("clear_graph", t, "", NoArgs, NoRef, Cur)
  /\ log' = <<>>
  /\ UNCHANGED <<base_classes, objs, issued, settings, stack>>

\* tool.instantiate(classes=..., uri=...) as the model calls it
InstantiateCalls ==
  { [classes |-> ListArg(<<DEVICE, "ies:Asset">>), uri |-> NoneUri],
    [classes |-> ListArg(<<UNKNOWN_CLASS>>), uri |-> NoneUri],
    [classes |-> OtherArg, uri |-> NoneUri],
    [classes |-> NoneArg, uri |-> A_URI] }

Next ==
  \/ \E c \in ConstructCalls : Construct(c.cls, c.a)
  \/ \E c \in InstantiateCalls : Instantiate("tool", c.classes, c.uri)
  \/ \E t \in Tools : ClearGraph(t)

Spec == Init /\ [][Next]_vars

(***************************************************************************)
(* The reference resolver and a relationship method built on it, on the    *)
(* entities a few constructions have made.                                 *)
(***************************************************************************)
ReferenceCalls ==
  { Call("Person", WithUri("tool", A_URI)),
    Call("Organisation", WithUri("tool", B_URI)) }

NextReference ==
  \/ \E c \in ReferenceCalls : Construct(c.cls, c.a)
  \/ \E self \in Initialised : \E reference \in References(self) :
       \E base_type \in {"none", "ResponsibleActor"} :
         ValidateReferencedObject(self, reference, base_type)
  \/ \E self \in Initialised : \E employer \in References(self) : WorksFor(self, employer)

SpecReference == Init /\ [][NextReference]_vars

(***************************************************************************)
(* An event and the participants added to it.                              *)
(***************************************************************************)
EVENT_URI == UserUri("http://example.org/my_event")
PARTICIPANT_URI == UserUri("http://example.org/event_participant_A")

ParticipantCalls ==
  { Call("Event", WithUri("tool", EVENT_URI)),
    Call("Person", WithUri("tool", A_URI)) }

NextParticipant ==
  \/ \E c \in ParticipantCalls : Construct(c.cls, c.a)
  \/ \E self \in Initialised : \E participating_entity \in References(self) :
       \E uri \in {NoneUri, PARTICIPANT_URI} :
         AddParticipant(self, participating_entity, uri)

SpecParticipant == Init /\ [][NextParticipant]_vars

(***************************************************************************)
(* Generated URIs over the sessions of a tool: direct calls of             *)
(* generate_data_uri with the context strings below, constructions with    *)
(* and without a URI, and resets.                                          *)
(***************************************************************************)
Contexts == {"", "_000001", "0"}

FreshCalls ==
  { Call("RdfsResource", NoUri("tool")),
    Call("RdfsResource", WithUri("tool", A_URI)) }

NextFreshUri ==
  \/ \E c \in FreshCalls : Construct(c.cls, c.a)
  \/ \E context \in Contexts : GenerateDataUri("tool", context)
  \/ \E t \in Tools : ClearGraph(t)

SpecFreshUri == Init /\ [][NextFreshUri]_vars

(***************************************************************************)
(* Properties of the Identity Cache.                                       *)
(***************************************************************************)
\* the last call was a construction that returned an object
Constructed == ret.op = "construct" /\ ret.exc = ""

\* C1: a construction that passes uri=u returns the object that the first
\* construction of the session that passed uri=u returned, whatever type and
\* class list it asks for.
C1_IdempotentConstruction ==
  Constructed /\ ret.a.uri_how = "kw" /\ ~Falsy(ret.a.uri)
    => ret.obj = first[ret.tool][ret.a.uri]

\* C2: no two distinct objects bound to the same tool in the same session
\* have the same uri, however their URIs reached them.
C2_OneObjectPerUri ==
  \A o1 \in Initialised : \A o2 \in Initialised :
    /\ objs[o1].tool = objs[o2].tool
    /\ objs[o1].session = objs[o2].session
    /\ objs[o1].uri = objs[o2].uri
    => o1 = o2

\* C3: a construction that hits the cache returns the cached object and
\* leaves every object (and so its class list), the triple store, the cache
\* and the instance counter as they were.
C3_Step ==
  ret'.op = "construct" /\ ret'.hit
    => /\ ret'.obj = instances[CacheTool(ret'.a)][ret'.key]
       /\ objs' = objs
       /\ graph' = graph
       /\ instances' = instances
       /\ session_instance_count' = session_instance_count

C3_HitChangesNothing == [][C3_Step]_vars

\* a construction hit the cache while asking for another type and another
\* class list than the cached object has
C3_Witness ==
  /\ Constructed /\ ret.hit
  /\ ret.a.classes = ListArg(<<DEVICE>>)
  /\ objs[ret.obj].classes = <<RDFS_RESOURCE>>
  /\ ret.cls = "Person" /\ objs[ret.obj].python_class = "RdfsResource"
  /\ Triple(ret.key, RDF_TYPE, ClassTerm(DEVICE), "") \notin graph[ret.tool]

\* the effective class list of a construction: the explicit list, or the
\* canonical class of the type
EffectiveClasses(cls, classes) ==
  IF classes.kind = "list" /\ classes.items # <<>> THEN classes.items
  ELSE <<CanonicalUri(cls)>>

\* C4: a construction that misses the cache returns a new object bound to
\* the URI that was looked up (the one supplied, or the one generated for an
\* omitted or empty uri), the cache maps that URI to the object, and the
\* triple store holds (uri, rdf:type, c) for every class c of the effective
\* class list.
C4_MissConstructs ==
  Constructed /\ ~ret.hit
    => /\ objs[ret.obj].uri = ret.key
       /\ ret.key \in DOMAIN instances[ret.tool]
       /\ instances[ret.tool][ret.key] = ret.obj
       /\ \A i \in 1..Len(EffectiveClasses(ret.cls, ret.a.classes)) :
            Triple(ret.key, RDF_TYPE,
                   ClassTerm(EffectiveClasses(ret.cls, ret.a.classes)[i]), "")
              \in graph[ret.tool]

\* C5: whenever a constructor hands a type triple for URI u to the triple
\* store, u is already a key of the cache of that tool.
C5_RegisteredBeforeTyped ==
  \A i \in 1..Len(log) : log[i].e = "type_triple" => log[i].registered

(***************************************************************************)
(* The Base Class Resolver on its own: _determine_base_class applied to    *)
(* the class lists below, on the hierarchy of either tool.                 *)
(***************************************************************************)
OntologyClasses == {e[1] : e \in IES4SubClassOf} \cup {e[2] : e \in IES4SubClassOf}

PairClasses == {DEVICE, "ies:Entity", "ies:AssetState", "ies:Person", UNKNOWN_CLASS}

ResolverInputs ==
  {NoneArg, ListArg(<<>>), ListArg(<<UNKNOWN_CLASS>>)}
    \cup {ListArg(<<c>>) : c \in OntologyClasses}
    \cup {ListArg(<<c, d>>) : c \in PairClasses, d \in PairClasses}

\* tool._determine_base_class(classes)
DetermineBaseClass(t, classes) ==
  LET found == _determine_base_class(base_classes[t], classes)
  IN /\ ret' = [Out("_determine_base_class", t, "", KwArgs(t, NoneUri, classes), NoRef, Cur)
                  EXCEPT !.exc = found.raised, !.python_class = found.python_class,
                         !.level = found.level]
     /\ log' = <<>>
     /\ UNCHANGED <<instances, graph, session_instance_count, session_uuid,
                    base_classes, objs, uuids, first, issued, settings, stack>>

NextResolver == \E t \in Tools : \E classes \in ResolverInputs : DetermineBaseClass(t, classes)

SpecResolver == Init /\ [][NextResolver]_vars

(***************************************************************************)
(* Properties of the resolver and of the hierarchy it scans.               *)
(***************************************************************************)
Max(S) == CHOOSE x \in S : \A y \in S : y <= x

\* the levels of a hierarchy that hold an entry covering one of the classes
CoveringLevels(hierarchy, classes) ==
  { l \in DOMAIN hierarchy.ent :
      \E u \in DOMAIN hierarchy.ent[l].ent : Covers(hierarchy.ent[l].ent[u], classes) }

\* the last call was _determine_base_class on a list of classes
Resolved == ret.op = "_determine_base_class" /\ ret.a.classes.kind = "list"

\* C6: for a non-empty list of requested classes that some entry of the
\* hierarchy covers, _determine_base_class returns a type whose entry covers
\* a requested class, and the level it returns is the deepest level on which
\* any entry covers a requested class.
C6_DeepestMatch ==
  LET h == base_classes[ret.tool]
      classes == ret.a.classes.items
  IN Resolved /\ classes # <<>> /\ CoveringLevels(h, classes) # {}
       => /\ ret.exc = ""
          /\ ret.level = Max(CoveringLevels(h, classes))
          /\ \E u \in DOMAIN h.ent[ret.level].ent :
               /\ h.ent[ret.level].ent[u].python_class = ret.python_class
               /\ Covers(h.ent[ret.level].ent[u], classes)

\* a request that entries on several levels cover was resolved
C6_Witness ==
  /\ Resolved /\ ret.exc = ""
  /\ Cardinality(CoveringLevels(base_classes[ret.tool], ret.a.classes.items)) > 1
  /\ ret.level = 5

\* C7: when no entry covers a requested class, or the list is empty or None,
\* _determine_base_class returns the root type RdfsResource and level 0, and
\* raises nothing.
C7_Fallback ==
  ret.op = "_determine_base_class"
    /\ (ret.a.classes.kind = "list" =>
          CoveringLevels(base_classes[ret.tool], ret.a.classes.items) = {})
    => ret.exc = "" /\ ret.python_class = "RdfsResource" /\ ret.level = 0

\* the levels of a hierarchy on which an implementation type is recorded
LevelsOf(hierarchy, cls) ==
  { l \in DOMAIN hierarchy.ent :
      \E u \in DOMAIN hierarchy.ent[l].ent : hierarchy.ent[l].ent[u].python_class = cls }

\* the lengths of the inheritance paths from the root to a type
RECURSIVE Depths(_)
Depths(cls) ==
  IF cls = "RdfsResource" THEN {0}
  ELSE UNION { {d + 1 : d \in Depths(b)} : b \in Bases(cls) }

\* C8: in the hierarchy of every tool each implementation type is recorded on
\* exactly one level, and that level is its depth below RdfsResource along
\* every inheritance path, also for the types with two bases.
C8_OneLevelPerType ==
  \A t \in Tools : \A cls \in PyTypes :
    /\ Cardinality(LevelsOf(base_classes[t], cls)) = 1
    /\ LevelsOf(base_classes[t], cls) = Depths(cls)

\* the hierarchy is built and holds the types that have two bases
C8_Witness ==
  /\ \A cls \in {"Device", "ClassOfElement", "ClassOfClassOfElement"} :
       Cardinality(Bases(cls)) = 2
  /\ LevelsOf(base_classes["tool"], "Device") = {5}
  /\ LevelsOf(base_classes["tool"], "ClassOfElement") = {2}

\* C9: a request for the Device class resolves to the Device type, the
\* subclass of both Asset and DeviceState, and to no shallower type.
C9_DeviceResolves ==
  Resolved /\ ret.a.classes.items = <<DEVICE>>
    => /\ ret.exc = ""
       /\ ret.python_class = "Device"
       /\ Bases(ret.python_class) = {"Asset", "DeviceState"}
       /\ ret.level = Max(Depths("Asset") \cup Depths("DeviceState")) + 1

\* the Device class alone was resolved
C9_Witness ==
  Resolved /\ ret.a.classes.items = <<DEVICE>> /\ ret.python_class = "Device"

(***************************************************************************)
(* Properties of the Reference Resolver.                                   *)
(***************************************************************************)
\* the objects a step allocated
Allocated == (1..Len(objs')) \ (1..Len(objs))

\* C10: _validate_referenced_object returns an entity object it is handed,
\* and for a string that is a key of the cache it returns the cached object,
\* whatever base type it is given; neither creates an object nor logs a
\* warning.  works_for called with the URI string of an existing object of the
\* session asserts worksFor against that URI and creates no other object
\* with that URI.
C10_Step ==
  LET t == ret'.tool
      r == ret'.ref
  IN /\ ret'.op = "_validate_referenced_object" /\ r.kind = "obj"
        => /\ ret'.exc = "" /\ ret'.obj = r.obj
           /\ objs' = objs /\ instances' = instances /\ ret'.warnings = <<>>
     /\ ret'.op = "_validate_referenced_object" /\ r.kind = "str"
          /\ r.uri \in DOMAIN instances[t]
        => /\ ret'.exc = "" /\ ret'.obj = instances[t][r.uri]
           /\ objs' = objs /\ instances' = instances /\ ret'.warnings = <<>>
     /\ ret'.op = "works_for" /\ r.kind = "str"
          /\ (\E o \in Initialised : /\ objs[o].uri = r.uri
                                     /\ objs[o].tool = t
                                     /\ objs[o].session = session_uuid[t])
        => /\ ret'.exc = "" /\ ret'.warnings = <<>>
           /\ Triple(objs'[ret'.obj].uri, "ies:worksFor", r.uri, "") \in graph'[t]
           /\ \A o \in Allocated : objs'[o].python_class = "State" /\ objs'[o].uri # r.uri

C10_ReferenceHit == [][C10_Step]_vars

\* a person was made to work for an organisation named by its URI string
C10_Witness ==
  /\ ret.op = "works_for" /\ ret.exc = "" /\ ret.ref = StrRef(B_URI)
  /\ ret.warnings = <<>>
  /\ Cardinality({o \in Initialised : objs[o].uri = B_URI}) = 1
  /\ \E o \in Initialised : objs[o].uri = B_URI /\ objs[o].python_class = "Organisation"
  /\ \E o \in Initialised : objs[o].uri = A_URI /\ objs[o].python_class = "Person"
  /\ Triple(objs[ret.obj].uri, "ies:worksFor", B_URI, "") \in graph["tool"]

\* the last step resolved a string that was no key of the cache of its tool
MissedString ==
  /\ ret'.op = "_validate_referenced_object" /\ ret'.ref.kind = "str"
  /\ ret'.ref.uri \notin DOMAIN instances[ret'.tool]

\* C11: _validate_referenced_object given a string URI that is no key of the
\* cache and an expected type T returns a newly allocated object of type T
\* bound to that URI, the cache maps the URI to it afterwards (a second
\* resolution finds it), and exactly one warning, naming the context, is logged.
C11_Step ==
  MissedString /\ ret'.cls # "none"
    => /\ ret'.exc = ""
       /\ ret'.obj \in Allocated
       /\ objs'[ret'.obj].python_class = ret'.cls
       /\ objs'[ret'.obj].uri = ret'.ref.uri
       /\ ret'.ref.uri \in DOMAIN instances'[ret'.tool]
       /\ instances'[ret'.tool][ret'.ref.uri] = ret'.obj
       /\ ret'.warnings = <<CONTEXT>>

C11_MissWithType == [][C11_Step]_vars

\* an unseen URI string was resolved to a new ResponsibleActor
C11_Witness ==
  /\ ret.op = "_validate_referenced_object" /\ ret.ref = StrRef(B_URI)
  /\ ret.cls = "ResponsibleActor" /\ ret.exc = "" /\ ~ret.hit
  /\ objs[ret.obj].python_class = "ResponsibleActor"
  /\ instances["tool"][B_URI] = ret.obj
  /\ ret.warnings = <<CONTEXT>>

\* C12: _validate_referenced_object given a string URI that is no key of the
\* cache and no base type (None) returns an RdfsResource bound to that URI.
C12_MissWithoutType ==
  /\ ret.op = "_validate_referenced_object" /\ ret.ref.kind = "str"
  /\ ret.cls = "none" /\ ~ret.hit
  => /\ ret.exc = ""
     /\ objs[ret.obj].python_class = "RdfsResource"
     /\ objs[ret.obj].uri = ret.ref.uri

\* the rdf:type triples a graph holds for a URI
TypesOf(g, uri) == { tr \in g : tr.s = uri /\ tr.p = RDF_TYPE }

\* C13: the object the resolver constructs for an unseen URI string has the
\* class list [rdfs:Resource], and the only rdf:type triple the graph holds
\* for the URI afterwards is (uri, rdf:type, rdfs:Resource), whatever the
\* expected type.
C13_Step ==
  MissedString /\ ret'.exc = ""
    => /\ objs'[ret'.obj].classes = <<RDFS_RESOURCE>>
       /\ TypesOf(graph'[ret'.tool], ret'.ref.uri)
            = {Triple(ret'.ref.uri, RDF_TYPE, ClassTerm(RDFS_RESOURCE), "")}

ContextOf(op) == IF op = "works_for" THEN "works_for" ELSE CONTEXT

\* C15: resolving a value that is neither a string nor an entity object
\* raises an exception whose message holds the type of the value and the
\* context string, and leaves the cache and the triple store as they were.
C15_Step ==
  ret'.op \in {"_validate_referenced_object", "works_for"} /\ ret'.ref.kind = "other"
    => /\ ret'.exc = "Exception"
       /\ \E i \in 1..Len(ret'.msg) : ret'.msg[i] = TypeName(ret'.ref)
       /\ \E i \in 1..Len(ret'.msg) : ret'.msg[i] = ContextOf(ret'.op)
       /\ instances' = instances
       /\ graph' = graph

C15_UnknownTypeRejected == [][C15_Step]_vars

\* works_for was handed a value of another type
C15_Witness ==
  /\ ret.op = "works_for" /\ ret.ref = OtherRef /\ ret.exc = "Exception"
  /\ ret.msg = <<"Unknown type", "<class 'int'>", "in", "works_for">>

\* C14: after add_participant(participating_entity=<URI string that is no key
\* of the cache>, uri=p) on an event the graph holds (p rdf:type
\* ies:EventParticipant), (p isParticipationOf URI), (p isParticipantIn
\* event) and (URI rdf:type ies:Entity), the canonical class of the expected
\* type of the placeholder.
C14_Step ==
  LET t == ret'.tool
      u == ret'.ref.uri
      p == ret'.a.uri
  IN /\ ret'.op = "add_participant" /\ ret'.exc = "" /\ ret'.ref.kind = "str"
     /\ u \notin DOMAIN instances[t] /\ p = PARTICIPANT_URI
     /\ p \notin DOMAIN instances[t]
     => /\ Triple(p, RDF_TYPE, ClassTerm("ies:EventParticipant"), "") \in graph'[t]
        /\ Triple(p, "ies:isParticipationOf", u, "") \in graph'[t]
        /\ Triple(p, "ies:isParticipantIn", EVENT_URI, "") \in graph'[t]
        /\ Triple(u, RDF_TYPE, ClassTerm(CanonicalUri(ret'.cls)), "") \in graph'[t]

C14_PlaceholderTyped == [][C14_Step]_vars

(***************************************************************************)
(* Properties of generated URIs and of the session reset.                  *)
(***************************************************************************)
\* C16: the URIs generate_data_uri returns within one session of a tool,
\* called directly with any context string or by a construction without a
\* URI, are pairwise distinct, and every call advances the instance counter
\* of the tool by one.
C16_Step ==
  \A t \in Tools :
    /\ \A i \in 1..Len(issued'[t]) : \A j \in 1..Len(issued'[t]) :
         i # j /\ issued'[t][i].session = issued'[t][j].session
           => issued'[t][i].uri # issued'[t][j].uri
    /\ session_uuid'[t] = session_uuid[t]
         => session_instance_count'[t] - session_instance_count[t]
              = Len(issued'[t]) - Len(issued[t])

C16_FreshUrisDistinct == [][C16_Step]_vars

\* one session handed out URIs with every context string and by a
\* construction without a URI
C16_Witness ==
  /\ session_instance_count["tool"] = MaxCount
  /\ \E i \in 1..Len(issued["tool"]) : \E j \in 1..Len(issued["tool"]) :
       /\ issued["tool"][i].session = issued["tool"][j].session
       /\ issued["tool"][i].uri =
            Uri("gen", "http://example.com/rdf/testdata#00000000000000000000000000000002_000001", 0, 0)
       /\ issued["tool"][j].uri =
            Uri("gen", "http://example.com/rdf/testdata#00000000000000000000000000000002_000001_000002", 0, 0)
  /\ \E o \in Initialised : objs[o].uri.k = "gen"

\* C17: clear_graph empties the cache of the tool, sets its instance counter
\* to 0 and installs a session token no earlier session had; a URI generated
\* in one session differs from every URI generated in another; a construction
\* that passes a URI returns an object of the current session also when an
\* object was bound to that URI before the reset.
C17_Step ==
  LET t == ret'.tool
  IN /\ ret'.op = "clear_graph"
        => /\ instances'[t] = <<>>
           /\ session_instance_count'[t] = 0
           /\ session_uuid'[t] # session_uuid[t]
           /\ \A i \in 1..Len(issued[t]) : issued[t][i].session # session_uuid'[t]
     /\ \A i \in 1..Len(issued'[t]) : \A j \in 1..Len(issued'[t]) :
          issued'[t][i].session # issued'[t][j].session
            => issued'[t][i].uri # issued'[t][j].uri
     /\ ret'.op = "construct" /\ ret'.exc = "" /\ ret'.a.uri_how = "kw"
          /\ objs'[ret'.obj].tool = t
        => objs'[ret'.obj].session = session_uuid'[t]

CachesOf(inst, o) == { b \in Tools : \E k \in DOMAIN inst[b] : inst[b][k] = o }

\* C18: a construction made for one tool, passed by keyword or positionally,
\* leaves the cache and the instance counter of every other tool as they
\* were, and no object is a value of the caches of two tools.
C18_Step ==
  ret'.op = "construct"
    => /\ \A b \in Tools \ {ret'.tool} :
            /\ instances'[b] = instances[b]
            /\ session_instance_count'[b] = session_instance_count[b]
       /\ \A o \in 1..Len(objs') : Cardinality(CachesOf(instances', o)) <= 1

C18_SessionIsolation == [][C18_Step]_vars

(***************************************************************************)
(* Properties of the class-list argument.                                  *)
(***************************************************************************)
\* C19 as stated: instantiate raises RuntimeError for a class-list argument
\* that is not a list, an entity constructor raises for one, and in both
\* cases no triple is added and no object is registered.
C19_OriginalStep ==
  /\ ret'.op = "instantiate" /\ ret'.a.classes.kind = "other"
       => ret'.exc = "RuntimeError" /\ graph' = graph /\ instances' = instances
  /\ ret'.op = "construct" /\ ret'.a.classes.kind = "other"
       => ret'.exc # "" /\ graph' = graph /\ instances' = instances

C19_Step ==
  /\ ret'.op = "instantiate" /\ ret'.a.classes.kind = "other"
       => ret'.exc = "RuntimeError" /\ graph' = graph /\ instances' = instances
  /\ ret'.op = "construct" /\ ret'.a.classes.kind = "other"
       /\ ret'.a.uri \notin DOMAIN instances[CacheTool(ret'.a)]
       => ret'.exc = "Exception" /\ graph' = graph /\ instances' = instances

RECURSIVE ReachesIn(_, _, _, _)
ReachesIn(g, p, uri, n) ==
  \/ p = uri
  \/ n > 0 /\ \E e \in g : e[1] = p /\ ReachesIn(g, e[2], uri, n - 1)

\* the reflexive-transitive subclass closure of a class URI
SubclassClosure(g, uri) ==
  { p \in OntologyClasses \cup {uri} :
      ReachesIn(g, p, uri, Cardinality(OntologyClasses)) }

\* C20: every implementation type has an entry in the hierarchy of every
\* tool; an entry is keyed by the canonical URI of its type, and its covered
\* subclasses are exactly the classes from which a chain of zero or more
\* subClassOf statements leads to that URI: the URI itself, and with
\* A subClassOf B subClassOf C the entry of C holds A, B and C.
C20_ClosureCorrect ==
  \A t \in Tools :
    /\ \A cls \in PyTypes : LevelsOf(base_classes[t], cls) # {}
    /\ \A l \in DOMAIN base_classes[t].ent : \A uri \in DOMAIN base_classes[t].ent[l].ent :
         LET entry == base_classes[t].ent[l].ent[uri]
         IN /\ uri = CanonicalUri(entry.python_class)
            /\ uri \in entry.ies_subclasses
            /\ entry.ies_subclasses = SubclassClosure(IES4SubClassOf, uri)

\* the entry of Entity covers Person through ResponsibleActor
C20_Witness ==
  /\ <<"ies:Person", "ies:ResponsibleActor">> \in IES4SubClassOf
  /\ <<"ies:ResponsibleActor", "ies:Entity">> \in IES4SubClassOf
  /\ <<"ies:Person", "ies:Entity">> \notin IES4SubClassOf
  /\ \E l \in LevelsOf(base_classes["tool"], "Entity") :
       {"ies:Person", "ies:ResponsibleActor", "ies:Entity"}
         \subseteq base_classes["tool"].ent[l].ent["ies:Entity"].ies_subclasses
  /\ Resolved

(***************************************************************************)
(* Class registration: the call tool.add_classes(ADDITONAL_CLASSES) of     *)
(* src/test/extensions.py, statements added to tool.ontology.graph         *)
(* through rdflib, and a rebuild of the Type Hierarchy Map.                *)
(***************************************************************************)
\* the fields of a session
session_state ==
  <<instances, graph, session_instance_count, session_uuid, objs, uuids, first, issued>>

WIDGET == "ies:Widget"
GIZMO == "ies:Gizmo"

\* class URI -> list of superclass URIs, as <<class, superclasses>> pairs
ADDITONAL_CLASSES == << <<WIDGET, <<DEVICE>>>>, <<GIZMO, <<DEVICE>>>> >>

\* tool.add_classes(mapping): class IESTool defines no attribute add_classes
\* and no __getattr__, so the attribute lookup raises
add_classes(M, t, mapping) == Throw(M, "AttributeError")

AddClasses(t, mapping) ==
  LET M == add_classes(Cur, t, mapping)
  IN /\ ret' = Out("add_classes", t, "", NoArgs, NoRef, M)
     /\ log' = <<>>
     /\ UNCHANGED <<session_state, base_classes, settings, stack>>

\* tool.ontology.graph.add((URIRef(sub), RDFS.subClassOf, URIRef(super))), the
\* rdflib call on the graph that IESTool exposes as self.ontology.graph
OntologyGraphAdd(t, sub, super) ==
  /\ ontology' = [ontology EXCEPT ![t] = @ \cup {<<sub, super>>}]
  /\ ret' = Out("ontology.graph.add", t, "", KwArgs(t, NoneUri, ListArg(<<sub, super>>)),
                NoRef, Cur)
  /\ log' = <<>>
  /\ UNCHANGED <<session_state, base_classes, prefixes, mode, validate, init_args, stack>>

\* tool.base_classes = tool._all_python_subclasses({}, RdfsResource, 0)
RebuildBaseClasses(t) ==
  /\ base_classes' = [base_classes EXCEPT ![t] = BuildBaseClasses(ontology[t])]
  /\ ret' = Out("_all_python_subclasses", t, "", NoArgs, NoRef, Cur)
  /\ log' = <<>>
  /\ UNCHANGED <<session_state, settings, stack>>

RegistrationInputs ==
  { ListArg(<<WIDGET>>), ListArg(<<GIZMO>>), ListArg(<<DEVICE>>),
    ListArg(<<WIDGET, "ies:Person">>), ListArg(<<"ies:Asset">>), ListArg(<<>>),
    ListArg(<<UNKNOWN_CLASS>>) }

NextRegistration ==
  \/ AddClasses("tool", ADDITONAL_CLASSES)
  \/ \E sub \in {WIDGET, GIZMO} : OntologyGraphAdd("tool", sub, DEVICE)
  \/ RebuildBaseClasses("tool")
  \/ \E t \in Tools : \E classes \in RegistrationInputs : DetermineBaseClass(t, classes)

SpecRegistration == Init /\ [][NextRegistration]_vars

\* the ontology of the tool states class c as a subclass of Device and the
\* Type Hierarchy Map was rebuilt since
RegisteredAndRebuilt(t, c) ==
  /\ <<c, DEVICE>> \in ontology[t]
  /\ base_classes[t] = BuildBaseClasses(ontology[t])

\* C21: add_classes registers a new class C as a subclass of Device; once the
\* Type Hierarchy Map is rebuilt, resolving [C] returns the Device type, and
\* as long as C is not registered resolving [C] returns the root type.
C21_RegistrationTakesEffect ==
  /\ ret.op = "add_classes" => ret.exc = ""
  /\ ret.op = "_determine_base_class" /\ ret.a.classes = ListArg(<<WIDGET>>)
       => /\ ret.exc = ""
          /\ ret.python_class = IF RegisteredAndRebuilt(ret.tool, WIDGET)
                                  THEN "Device" ELSE "RdfsResource"

(***************************************************************************)
(* The default data namespace: assignments to tool.default_data_namespace, *)
(* add_prefix calls and the URIs generated in between.                     *)
(***************************************************************************)
CUSTOM_NAMESPACE == "http://myorg.example.com/data#"
NEW_NAMESPACE == "http://changed.example.org/newdata#"
Namespaces == {DEFAULT_DATA_NAMESPACE, CUSTOM_NAMESPACE, NEW_NAMESPACE}

\* the prefix arguments: '', ':', 'ex' and 'ex:'
PrefixArgs == { <<>>, <<":">>, <<"e", "x">>, <<"e", "x", ":">> }

\* what a call that only changes the prefixes reports
PrefixOut(op, t, prefix, uri) ==
  [Out(op, t, "", NoArgs, NoRef, Cur) EXCEPT !.a = [prefix |-> prefix, uri |-> uri]]

\* tool.add_prefix(prefix, uri)
AddPrefix(t, prefix, uri) ==
  /\ prefixes' = [prefixes EXCEPT ![t] = add_prefix(@, prefix, uri)]
  /\ ret' = PrefixOut("add_prefix", t, prefix, uri)
  /\ log' = <<>>
  /\ UNCHANGED <<session_state, base_classes, ontology, mode, validate, init_args, stack>>

\* tool.default_data_namespace = value; the setter calls self.add_prefix(":", value)
SetDefaultDataNamespace(t, value) ==
  /\ prefixes' = [prefixes EXCEPT ![t] = add_prefix(@, <<":">>, value)]
  /\ ret' = PrefixOut("default_data_namespace", t, <<":">>, value)
  /\ log' = <<>>
  /\ UNCHANGED <<session_state, base_classes, ontology, mode, validate, init_args, stack>>

\* tool = IESTool(default_data_namespace=namespace)
InitNamespace ==
  \E namespace \in {DEFAULT_DATA_NAMESPACE, CUSTOM_NAMESPACE} :
    InitWith(InitArgs(namespace, "rdflib", FALSE))

NextNamespace ==
  \/ \E value \in Namespaces : SetDefaultDataNamespace("tool", value)
  \/ \E prefix \in PrefixArgs : \E uri \in {CUSTOM_NAMESPACE, NEW_NAMESPACE} :
       AddPrefix("tool", prefix, uri)
  \/ GenerateDataUri("tool", "")
  \/ Construct("RdfsResource", NoUri("tool"))

SpecNamespace == InitNamespace /\ [][NextNamespace]_vars

\* what generate_data_uri writes after the namespace: a session token, a
\* context and a counter
GeneratedSuffixes ==
  { SessionUuidStr(token) \o context \o "_" \o CountStrs[n] :
      token \in 1..MaxTokens, context \in Contexts, n \in DOMAIN CountStrs }

\* the generated URI s starts with the namespace
StartsWithNamespace(s, namespace) ==
  \E rest \in GeneratedSuffixes : s = namespace \o rest

\* C22: the default data namespace is always the value of the ":" prefix: an
\* assignment to default_data_namespace and an add_prefix with '' or ':' both
\* set it, any other add_prefix leaves it alone, and a URI generated by a call
\* starts with the namespace configured at the time of the call.
C22_Step ==
  LET t == ret'.tool
      \* what reading tool.default_data_namespace gives after the call
      namespace == default_data_namespace([prefixes |-> prefixes'], t)
  IN /\ ":" \in DOMAIN prefixes'[t]
     /\ ret'.op = "default_data_namespace" => namespace = ret'.a.uri
     /\ ret'.op = "add_prefix"
          => namespace = IF Str(ret'.a.prefix) \in {"", ":"}
                           THEN ret'.a.uri ELSE prefixes[t][":"]
     /\ ret'.op = "generate_data_uri" => StartsWithNamespace(ret'.key.s, namespace)
     /\ ret'.op = "construct" /\ ret'.exc = ""
          => StartsWithNamespace(objs'[ret'.obj].uri.s, namespace)

C22_NamespaceIsDefaultPrefix == [][C22_Step]_vars

\* a URI was generated after add_prefix('', uri) changed the namespace the
\* tool was created with, with another prefix registered as well
C22_Witness ==
  /\ ret.op = "generate_data_uri"
  /\ prefixes["tool"][":"] # init_args["tool"].default_data_namespace
  /\ "ex:" \in DOMAIN prefixes["tool"]
  /\ "" \notin DOMAIN prefixes["tool"]
  /\ StartsWithNamespace(ret.key.s, NEW_NAMESPACE)
  /\ Len(issued["tool"]) >= 2
  /\ ~StartsWithNamespace(issued["tool"][1].uri.s, NEW_NAMESPACE)

(***************************************************************************)
(* Time strings: put_in_period, starts_in, ends_in and the date of birth   *)
(* of a Person.                                                            *)
(***************************************************************************)
\* test_time.py, test_invalid_dates: a wrong separator, a month and a day
\* out of range, a timezone offset, too few digits, a word, an hour out of
\* range
INVALID_DATES ==
  { <<"2", "0", "2", "4", "/", "0", "1", "/", "0", "1">>,
    <<"2", "0", "2", "4", "-", "1", "3", "-", "0", "1">>,
    <<"2", "0", "2", "4", "-", "0", "1", "-", "3", "2">>,
    <<"2", "0", "2", "4", "-", "0", "1", "-", "0", "1", "+", "3", ":", "0", "0">>,
    <<"2", "0", "2">>,
    <<"2", "0", "2", "4", "-", "1">>,
    <<"n", "o", "t", "-", "a", "-", "d", "a", "t", "e">>,
    <<"2", "0", "2", "4", "-", "0", "1", "-", "0", "1", "T", "2", "5", ":", "0", "0">> }

\* test_time.py, the strings of the tests that expect a period
VALID_DATES ==
  { <<"2", "0", "0", "7", "-", "0", "1", "-", "0", "2", " ", "0", "3", ":", "0", "4", ":", "0", "5">>,
    <<"2", "0", "2", "4", "-", "0", "1", "-", "0", "1", "T", "1", "2", ":", "0", "0", ":", "0", "0", "Z">>,
    <<"2", "0", "2", "0", "-", "0", "6">> }

TimeStrings == INVALID_DATES \cup VALID_DATES

TimeOut(op, self, time_string, M) ==
  [Out(op, objs[self].tool, "", NoArgs, NoRef, M)
     EXCEPT !.a = [self |-> self, time_string |-> time_string]]

\* what a call of one of the three methods leaves behind
TimeCalled(op, self, time_string, M) ==
  /\ Commit(M, TimeOut(op, self, time_string, M))
  /\ UNCHANGED first

\* self.put_in_period(time_string=...)
PutInPeriod(self, time_string) ==
  TimeCalled("put_in_period", self, time_string, put_in_period(Cur, self, time_string))

\* self.starts_in(time_string=...)
StartsIn(self, time_string) ==
  TimeCalled("starts_in", self, time_string, starts_in(Cur, self, time_string, "", NoneUri))

\* self.ends_in(time_string=...)
EndsIn(self, time_string) ==
  TimeCalled("ends_in", self, time_string, ends_in(Cur, self, time_string, "", NoneUri))

GIVEN_NAME == "Fred"

\* Person(tool=tool, uri=..., given_name=..., date_of_birth=...)
PersonBorn(uri, given_name, date_of_birth) ==
  [KwArgs("tool", uri, NoneArg) EXCEPT !.given_name = given_name,
                                       !.date_of_birth = date_of_birth]

\* the persons of the session
Persons == { o \in Initialised : objs[o].python_class = "Person" }

NextTime ==
  \/ Construct("Person", KwArgs("tool", A_URI, NoneArg))
  \/ \E given_name \in {"", GIVEN_NAME}, date_of_birth \in TimeStrings :
       Construct("Person", PersonBorn(A_URI, given_name, date_of_birth))
  \/ \E self \in Persons, time_string \in TimeStrings : PutInPeriod(self, time_string)
  \/ \E self \in Persons, time_string \in TimeStrings : StartsIn(self, time_string)
  \/ \E self \in Persons, time_string \in TimeStrings : EndsIn(self, time_string)

SpecTime == Init /\ [][NextTime]_vars

\* C23: put_in_period, starts_in and ends_in called with a string that is not
\* an accepted ISO8601 form (wrong separator, month or day or hour out of
\* range, timezone offset, too few digits, a word) raise RuntimeError before
\* any object is created or any triple is emitted, and a Person constructed
\* with such a date of birth raises RuntimeError.  Constructing means that
\* the call makes a Person: a call at a URI the cache already holds returns
\* the cached object and runs no constructor.
C23_Step ==
  /\ ret'.op \in {"put_in_period", "starts_in", "ends_in"}
       /\ ret'.a.time_string \in INVALID_DATES
       => /\ ret'.exc = "RuntimeError"
          /\ objs' = objs
          /\ graph' = graph
          /\ instances' = instances
  /\ ret'.op = "construct" /\ ret'.a.date_of_birth \in INVALID_DATES
       /\ ret'.a.uri \notin DOMAIN instances[ret'.tool]
       => ret'.exc = "RuntimeError"

PART_OF == "ies:isPartOf"

\* is_literal and literal_type of a call: "" for is_literal=False, else the
\* literal type
StoreLiterals == {"", "string", "integer"}

StoreArgs == [s : {A_URI}, p : {PART_OF}, o : {A_URI, B_URI}, lit : StoreLiterals]

StoreOut(op, t, a, found, M) ==
  [Out(op, t, "", NoArgs, NoRef, M)
     EXCEPT !.a = [s |-> a.s, p |-> a.p, o |-> a.o, lit |-> a.lit, found |-> found]]

\* what tool.add_triple leaves behind; in rdflib and sparql_server mode the
\* method returns None, in plugin mode True
TripleAdded(t, a, M) ==
  /\ Commit(M, StoreOut("add_triple", t, a, mode[t] = "plugin", M))
  /\ UNCHANGED first

\* tool.add_triple(subject, predicate, obj, is_literal, literal_type)
AddTriple(t, a) == TripleAdded(t, a, add_triple(Cur, t, a.s, a.p, a.o, a.lit))

\* tool.in_graph(subject, predicate, obj, is_literal, literal_type)
InGraph(t, a) ==
  /\ Commit(Cur, StoreOut("in_graph", t, a, in_graph(Cur, t, a.s, a.p, a.o, a.lit), Cur))
  /\ UNCHANGED first

NextStore ==
  \/ \E a \in StoreArgs : AddTriple("tool", a)
  \/ \E a \in StoreArgs : InGraph("tool", a)

SpecStore == Init /\ [][NextStore]_vars

\* the triples of the store with the subject, predicate and object of a call
SameStatement(t, a) ==
  { x \in graph[t] : x = Triple(a.s, a.p, a.o, x.lit) }

\* C24: in rdflib mode add_triple followed by in_graph with the same
\* arguments is a round trip, for URI objects and for literals: in_graph
\* returns True; in_graph returns False for a triple that was never added;
\* adding the same triple twice leaves the graph as after adding it once.
C24_Step ==
  /\ mode["tool"] = "rdflib"
  /\ ret.op = "add_triple" /\ ret'.op = "in_graph"
       /\ ret'.a = [ret.a EXCEPT !.found = ret'.a.found]
       => ret'.a.found = TRUE
  /\ ret'.op = "in_graph" /\ SameStatement("tool", ret'.a) = {}
       => ret'.a.found = FALSE
  /\ ret.op = "add_triple" /\ ret'.op = "add_triple" /\ ret'.a = ret.a
       => graph' = graph

C24_RoundTrip == [][C24_Step]_vars

(***************************************************************************)
(* Communication.create_party and the deprecated Communication.add_party.  *)
(* add_party runs one frame at a time: stack holds the frames of the call  *)
(* in progress, and no other call starts while it is not empty.            *)
(***************************************************************************)
\* the depth of the call stack at which the interpreter raises
\* RecursionError (sys.getrecursionlimit(), 1000 unless it is changed)
RecursionLimit == 4

PARTY_IN_COMMUNICATION == "ies:PartyInCommunication"

\* Communication.create_party with party_role, start and end left out
create_party(M, self, uri) ==
  Unique__call__(M, "PartyInCommunication",
                 [KwArgs(M.objs[self].tool, uri, ListArg(<<PARTY_IN_COMMUNICATION>>))
                    EXCEPT !.communication = self])

PartyOut(op, self, uri, M) ==
  [Out(op, objs[self].tool, "PartyInCommunication", NoArgs, NoRef, M)
     EXCEPT !.a = [self |-> self, uri |-> uri]]

\* the communications of the session
Communications == { o \in Initialised : objs[o].python_class = "Communication" }

\* what a call of create_party leaves behind
PartyCreated(self, uri, M) ==
  /\ Commit(M, PartyOut("create_party", self, uri, M))
  /\ UNCHANGED first

\* self.create_party(uri=...)
CreateParty(self, uri) ==
  /\ stack = <<>>
  /\ PartyCreated(self, uri, create_party(Cur, self, uri))

AddPartyFrame(self, uri) == [op |-> "add_party", self |-> self, uri |-> uri]

\* self.add_party(uri=...): the first frame is entered
AddParty(self, uri) ==
  /\ stack = <<>>
  /\ stack' = <<AddPartyFrame(self, uri)>>
  /\ UNCHANGED <<instances, graph, session_instance_count, session_uuid, base_classes,
                 objs, uuids, first, issued, settings, ret, log>>

\* the body of add_party in the top frame: a warning is logged and
\* self.add_party(uri=uri, ...) is called with the arguments the frame got
AddPartyBody ==
  /\ stack # <<>>
  /\ Len(stack) < RecursionLimit
  /\ stack' = Append(stack, AddPartyFrame(stack[Len(stack)].self, stack[Len(stack)].uri))
  /\ UNCHANGED <<instances, graph, session_instance_count, session_uuid, base_classes,
                 objs, uuids, first, issued, settings, ret, log>>

\* the call that would exceed the limit raises RecursionError, which no
\* frame catches
AddPartyRecursionError ==
  /\ stack # <<>>
  /\ Len(stack) = RecursionLimit
  /\ stack' = <<>>
  /\ ret' = PartyOut("add_party", stack[1].self, stack[1].uri, Throw(Cur, "RecursionError"))
  /\ log' = <<>>
  /\ UNCHANGED <<instances, graph, session_instance_count, session_uuid, base_classes,
                 objs, uuids, first, issued, settings>>

\* Communication(tool=tool, uri=...)
NextParty ==
  \/ \E uri \in {NoneUri, EVENT_URI} :
       stack = <<>> /\ Construct("Communication", KwArgs("tool", uri, NoneArg))
  \/ \E self \in Communications, uri \in {NoneUri, PARTICIPANT_URI} : CreateParty(self, uri)
  \/ \E self \in Communications, uri \in {NoneUri, PARTICIPANT_URI} : AddParty(self, uri)
  \/ AddPartyBody
  \/ AddPartyRecursionError

SpecParty == Init /\ [][NextParty]_vars

\* the call has returned a PartyInCommunication that is part of the
\* communication
ReturnedParty ==
  /\ ret.exc = ""
  /\ ret.obj \in 1..Len(objs)
  /\ objs[ret.obj].python_class = "PartyInCommunication"
  /\ Triple(objs[ret.obj].uri, "ies:isPartOf", objs[ret.a.self].uri, "")
       \in graph[objs[ret.a.self].tool]

\* C25: the deprecated Communication.add_party terminates: every call returns
\* a PartyInCommunication related to the communication, as create_party
\* does, after a bounded number of steps.  As a state predicate: a call of
\* add_party or create_party that has ended has returned such a party.
C25_AddPartyReturnsParty ==
  ret.op \in {"add_party", "create_party"} => ReturnedParty

(***************************************************************************)
(* Validation: IESTool(mode=..., validate=...) and get_rdf.                *)
(***************************************************************************)
\* results_text of a SHACL report that does not conform
RESULTS_TEXT == "Validation Report"

\* tool = IESTool(mode=..., validate=...) in rdflib or plugin mode
InitValidate ==
  \E m \in {"rdflib", "plugin"}, v \in BOOLEAN :
    InitWith(InitArgs(DEFAULT_DATA_NAMESPACE, m, v))

\* the dictionary get_rdf returns, with clear left at False: whether the
\* SHACL check ran, and validation_errors; conforms is the verdict pyshacl
\* gives on the graph if it is asked
ret_dict(t, conforms) ==
  [session_uuid |-> session_uuid[t],
   conforms |-> conforms,
   checked |-> mode[t] \notin {"sparql_server", "plugin"} /\ validate[t],
   validation_errors |->
     IF mode[t] \notin {"sparql_server", "plugin"} /\ validate[t] /\ ~conforms
       THEN RESULTS_TEXT ELSE ""]

\* tool.get_rdf()
GetRdf(t, conforms) ==
  /\ ret' = [Out("get_rdf", t, "", NoArgs, NoRef, Cur) EXCEPT !.a = ret_dict(t, conforms)]
  /\ log' = <<>>
  /\ UNCHANGED <<instances, graph, session_instance_count, session_uuid, base_classes,
                 objs, uuids, first, issued, settings, stack>>

NextValidate ==
  \/ \E conforms \in BOOLEAN : GetRdf("tool", conforms)
  \/ \E a \in StoreArgs : AddTriple("tool", a)

SpecValidate == InitValidate /\ [][NextValidate]_vars

\* the tool was built with mode 'rdflib' and validate=True
ValidationRequested(t) == init_args[t].mode = "rdflib" /\ init_args[t].validate

\* C26: when IESTool is initialised with mode 'rdflib' and validate=True,
\* validation is enabled once initialisation has finished and stays enabled:
\* every later get_rdf runs the SHACL check and reports a graph that does not
\* conform in validation_errors.
C26_ValidationEnabled ==
  ValidationRequested("tool") =>
    /\ validate["tool"]
    /\ ret.op = "get_rdf" =>
         /\ ret.a.checked
         /\ ~ret.a.conforms => ret.a.validation_errors # ""

(***************************************************************************)
(* The keys of the Identity Cache and the URIs of the objects.             *)
(***************************************************************************)
\* the keys under which the cache of tool t holds object o
KeysOf(M, t, o) == { u \in DOMAIN M.instances[t] : M.instances[t][u] = o }

\* the initialised objects that tool t made in its current session
SessionObjects(M, t) ==
  { o \in 1..Len(M.objs) : /\ M.objs[o].uri # NoneUri
                           /\ M.objs[o].tool = t
                           /\ M.objs[o].session = M.session_uuid[t] }

CacheKeysMatch(M) ==
  \A t \in Tools :
    /\ \A u \in DOMAIN M.instances[t] : M.objs[M.instances[t][u]].uri = u
    /\ \A o \in SessionObjects(M, t) : Cardinality(KeysOf(M, t, o)) = 1

\* C27: in every reachable state of a session every key u of the Identity
\* Cache maps to an object whose uri is u, and every object of the session is
\* stored under exactly one key; this also holds after constructions with the
\* URI omitted, empty or passed positionally, each of which consumes exactly
\* one counter value.
C27_Step ==
  /\ CacheKeysMatch([instances |-> instances', objs |-> objs',
                     session_uuid |-> session_uuid'])
  /\ ret'.op = "construct" /\ ret'.exc = "" /\ ~ret'.hit
       /\ (ret'.a.uri_how # "kw" \/ Falsy(ret'.a.uri))
       => session_instance_count'[CacheTool(ret'.a)]
            = session_instance_count[CacheTool(ret'.a)] + 1

C27_CacheKeysMatchObjects == [][C27_Step]_vars

(***************************************************************************)
(* Constructors that raise part-way.                                       *)
(***************************************************************************)
\* test.py, MainTestCase.test_dob_on_person_when_given
START == <<"1", "9", "7", "0", "-", "0", "1", "-", "0", "1">>
\* test_time.py, test_invalid_dates: a month out of range
INVALID_MONTH == <<"2", "0", "2", "4", "-", "1", "3", "-", "0", "1">>
MEASURE_VALUE == "5"

\* Person with a given name and an invalid date of birth, with both start and
\* date_of_birth, with a valid date of birth, and without dates; MeasureValue
\* without and with a value; each at a URI of the caller and without a URI
FailureCalls ==
  UNION { { Call("Person", [a EXCEPT !.given_name = GIVEN_NAME,
                                     !.date_of_birth = INVALID_MONTH]),
            Call("Person", [a EXCEPT !.start = START, !.date_of_birth = START]),
            Call("Person", [a EXCEPT !.date_of_birth = START]),
            Call("Person", a),
            Call("MeasureValue", a),
            Call("MeasureValue", [a EXCEPT !.value = MEASURE_VALUE]) }
          : a \in {KwArgs("tool", A_URI, NoneArg), NoUri("tool")} }

NextFailure ==
  \/ \E c \in FailureCalls : Construct(c.cls, c.a)
  \/ \E self \in Initialised :
       ValidateReferencedObject(self, StrRef(A_URI), "Person")

SpecFailure == Init /\ [][NextFailure]_vars

\* C28: if an entity constructor raises part-way (Person with an invalid
\* date_of_birth, Person with both start and date_of_birth, MeasureValue
\* without a value), the Identity Cache and the triple store of the session are
\* the same as before the call, so that no partially initialised object can be
\* returned by a later construction or reference resolution for that URI.
C28_Step ==
  ret'.op = "construct" /\ ret'.exc # ""
    => /\ instances' = instances
       /\ graph' = graph

C28_FailedConstructionLeavesNoTrace == [][C28_Step]_vars

(***************************************************************************)
(* Dependent URIs: names minted under the URI of their parent.             *)
(***************************************************************************)
SURNAME == "Bloggs"
GIVENNAME_POSTFIX == "GIVENNAME"
SURNAME_POSTFIX == "SURNAME"

\* what the caller of a minting operation sees: the parent, the postfix and
\* the text of the name
MintOut(op, t, self, parent_uri, postfix, M) ==
  [Out(op, t, "", NoArgs, NoRef, M)
     EXCEPT !.a = [self |-> self, parent_uri |-> parent_uri, postfix |-> postfix]]

MintCalled(op, self, postfix, M) ==
  /\ Commit(M, MintOut(op, objs[self].tool, self, objs[self].uri, postfix, M))
  /\ UNCHANGED first

\* tool._mint_dependent_uri(parent_uri, postfix) called on its own
MintDependentUri(t, parent_uri, postfix) ==
  /\ Commit(Cur, [MintOut("_mint_dependent_uri", t, 0, parent_uri, postfix, Cur)
                    EXCEPT !.key = _mint_dependent_uri(Cur, t, parent_uri, postfix)])
  /\ UNCHANGED first

\* self.add_given_name(given_name)
AddGivenName(self, given_name) ==
  MintCalled("add_given_name", self, GIVENNAME_POSTFIX, add_given_name(Cur, self, given_name))

\* self.add_surname(surname)
AddSurname(self, surname) ==
  MintCalled("add_surname", self, SURNAME_POSTFIX, add_surname(Cur, self, surname))

\* Name(tool=t, name_text=..., uri=...) by the caller, at a URI of the shape the
\* minting produces
NamedAt(t, counter) ==
  [KwArgs(t, DependentUri(A_URI, GIVENNAME_POSTFIX, counter), NoneArg)
     EXCEPT !.text = GIVEN_NAME]

NextMint ==
  \/ Construct("Person", KwArgs("tool", A_URI, NoneArg))
  \/ \E t \in Tools, counter \in 1..2 : Construct("Name", NamedAt(t, counter))
  \/ \E self \in Persons : AddGivenName(self, GIVEN_NAME)
  \/ \E self \in Persons : AddSurname(self, SURNAME)
  \/ MintDependentUri("tool", A_URI, GIVENNAME_POSTFIX)
  \/ ClearGraph("tool")

SpecMint == Init /\ [][NextMint]_vars

\* new_uri is parent_uri_postfix_NNN with the smallest NNN >= 001 that is not a
\* key of the cache of tool t
SmallestFree(t, parent_uri, postfix, new_uri) ==
  \E counter \in 1..(MaxNames + 1) :
    /\ new_uri = DependentUri(parent_uri, postfix, counter)
    /\ new_uri \notin DOMAIN instances[t]
    /\ \A taken \in 1..(counter - 1) :
         DependentUri(parent_uri, postfix, taken) \in DOMAIN instances[t]

\* C29: _mint_dependent_uri(parent, postfix) returns parent_postfix_NNN with
\* the smallest three-digit zero-padded counter NNN >= 001 whose URI is not a
\* key of the Identity Cache; a dependent addition on a parent (add_given_name,
\* add_surname) constructs at the minted URI, so it does not hit the cache, it
\* makes a new Name, registers it under that URI, which was not a key of the
\* session before, and repeated additions get 001, 002, ... in order.
C29_Step ==
  /\ ret'.op = "_mint_dependent_uri"
       => SmallestFree(ret'.tool, ret'.a.parent_uri, ret'.a.postfix, ret'.key)
  /\ ret'.op \in {"add_given_name", "add_surname"}
       => /\ ret'.exc = ""
          /\ ~ret'.hit
          /\ ret'.obj = Len(objs) + 1
          /\ objs'[ret'.obj].python_class = "Name"
          /\ SmallestFree(ret'.tool, ret'.a.parent_uri, ret'.a.postfix,
                          objs'[ret'.obj].uri)
          /\ instances'[ret'.tool] =
               instances[ret'.tool] @@ (objs'[ret'.obj].uri :> ret'.obj)

C29_MintsSmallestFree == [][C29_Step]_vars

\* a person got a second given name, at ..._GIVENNAME_002, after a first one
\* at ..._GIVENNAME_001
C29_Witness ==
  /\ ret.op = "add_given_name"
  /\ ret.exc = ""
  /\ objs[ret.obj].uri = DependentUri(A_URI, GIVENNAME_POSTFIX, 2)
  /\ DependentUri(A_URI, GIVENNAME_POSTFIX, 1) \in DOMAIN instances[ret.tool]
  /\ objs[instances[ret.tool][DependentUri(A_URI, GIVENNAME_POSTFIX, 1)]].python_class = "Name"

(***************************************************************************)
(* The session state a tool has when IESTool.__init__ returns, in each     *)
(* mode.  No action of this specification calls clear_graph.               *)
(***************************************************************************)
Modes == {"rdflib", "plugin", "sparql_server"}

\* tool = IESTool(mode=m), with a plug-in or a reachable server where the mode
\* asks for one
InitModes == \E m \in Modes : InitWith(InitArgs(DEFAULT_DATA_NAMESPACE, m, FALSE))

SessionCalls ==
  { Call("RdfsResource", NoUri("tool")),
    Call("Person", NoUri("tool")),
    Call("RdfsResource", WithUri("tool", A_URI)),
    Call("Person", WithUri("tool", B_URI)) }

NextSession ==
  \/ \E context \in {"", CONTEXT} : GenerateDataUri("tool", context)
  \/ \E c \in SessionCalls : Construct(c.cls, c.a)

SpecSession == InitModes /\ [][NextSession]_vars

\* C30: after IESTool.__init__ completes in any mode (rdflib, plugin,
\* sparql_server) the session token and the instance counter are set and the
\* Identity Cache is empty, so generate_data_uri and a construction without
\* a URI succeed without a prior clear_graph call.
C30_Step ==
  /\ session_uuid["tool"] # NoneValue
  /\ session_instance_count["tool"] # NoneValue
  /\ ret'.op = "generate_data_uri" \/ (ret'.op = "construct" /\ ret'.a.uri_how = "omitted")
       => ret'.exc = ""

C30_SessionInitialised == [][C30_Step]_vars
====
